---- MODULE Spec2Model ----
(***************************************************************************)
(* A model of validate-infra, the infrastructure validation suite of the   *)
(* DigitalOcean App Platform debug container (src/validate_infra_node).    *)
(*                                                                         *)
(* The module holds several specifications over one set of variables:      *)
(*   SummarySpec  printSummary applied to arbitrary bounded check lists    *)
(*   ResolveSpec  getConnectionUrl applied to a pair of variable names     *)
(*   Spec         one process invocation: main, runAll and the runners     *)
(*   ConcSpec     several invocations of one write probe against the same  *)
(*                service                                                  *)
(*   PureSpec     one call of a helper function on a bounded input         *)
(*   TcpSpec      one call of tcpCheck and the events of its socket/timer  *)
(* A specification leaves the variables of the others at their idle value. *)
(***************************************************************************)
EXTENDS Integers, Sequences, FiniteSets, TLC

VARIABLES
  \* ---- SummarySpec: one call of printSummary
  sumIn,        \* the array passed to printSummary, as the caller holds it
  sumIn0,       \* its content when the call was made
  sumOut,       \* what the call returned and printed (NoSummary before the call)
  \* ---- PureSpec: one call of a helper function
  call,         \* the call: [fn |-> name of the function, ... its arguments]
  result,       \* <<>> before the call, <<value returned>> after it
  \* ---- ResolveSpec: one call of getConnectionUrl
  resKeys,      \* <<urlKey, privateUrlKey>> ("" for an omitted privateUrlKey)
  resOut,       \* <<>> before the call, <<value returned>> after it
  \* ---- ConcSpec: invocations of a write probe sharing one service
  ckind,        \* the probe: "redis", "postgresql" or "spaces"
  cstore,       \* the service: resource name -> Absent or MadeBy(invocation)
  cpc,          \* invocation -> index of the statement it is to await next
  cres,         \* invocation -> outcomes of the statements it has awaited
  \* ---- Spec: one process invocation of validate-infra
  env,          \* process.env: variable name -> value (Unset when absent)
  vpc,          \* os.networkInterfaces() holds an IPv4 address in 10.0.0.0/8
  argv,         \* process.argv.slice(2)
  pc,           \* where main is: "main", "runAll", "single", "exit"
  modIdx,       \* runAll: index of the module being run (0 before the first)
  exitCode,     \* runAll: its local exitCode
  failedModules,\* runAll: its local failedModules
  modResults,   \* runAll: how each module.runChecks call so far ended, in order
  procExit,     \* <<>> while running, then <<the code handed to process.exit>>
  runner,       \* the module whose runChecks is executing ("none" when none)
  stage,        \* the await point that runner is suspended at
  checks,       \* the validator's local `checks` array
  allChecks,    \* database.runChecks: its local allChecks
  dbTodo,       \* database.runChecks: the types the outer loop has still to visit
  ops,          \* operations awaited so far by this runChecks call, with outcome
  client,       \* the driver client: "none", "constructed", "connected", "closed"
  target,       \* the connection string the validator was called with
  wstep,        \* index of the awaited write-probe statement (0 outside the probe)
  ret,          \* how runChecks ended: NoRet, Returned(code) or Threw
  \* ---- TcpSpec: one call of tcpCheck
  tcpIn,        \* <<>> or the call: [host, port, ms, net], net being what the
                \* network does to the connection attempt if it is left alone
  timer,        \* the timeout timer: "none", "armed", "cleared", "fired"
  socket,       \* the socket: "none", "created", "connecting", "destroyed"
  handled,      \* the events whose handler has run, in order
  resolves,     \* the values resolve() was called with, in order
  settled       \* <<>> while the promise is pending, then <<its settlement>>

sumVars == <<sumIn, sumIn0, sumOut>>
resVars == <<resKeys, resOut>>
concVars == <<ckind, cstore, cpc, cres>>
pureVars == <<call, result>>
tcpVars == <<tcpIn, timer, socket, handled, resolves, settled>>
\* the variables of the specifications that call one function or one probe
sideVars == <<sumVars, resVars, concVars, pureVars, tcpVars>>
runVars == <<runner, stage, checks, allChecks, dbTodo, ops, client, target, wstep, ret>>
mainVars == <<pc, modIdx, exitCode, failedModules, modResults, procExit>>
cfgVars == <<env, vpc, argv>>

vars == <<sideVars, cfgVars, mainVars, runVars>>

(***************************************************************************)
(* Bounds of the model.                                                    *)
(***************************************************************************)
MaxChecks == 3
\* ConcSpec: the number of concurrent invocations of a runner
NumInvocations == 2
\* PureSpec: the longest secret and the largest `show` maskSecret is called with
MaxSecretLen == 4
MaxShow == 4
\* PureSpec: the most lines the value of a variable has in diagnose.sh
MaxValueLines == 2

(***************************************************************************)
(* Sequence helpers.                                                       *)
(***************************************************************************)
SeqsUpTo(S, n) == UNION {[1..k -> S] : k \in 0..n}

(***************************************************************************)
(* utils.ts: CheckResult and printSummary.                                 *)
(***************************************************************************)
\* A CheckResult: name, passed and the optional message ("" when absent).
CheckResult(name, passed, message) ==
  [name |-> name, passed |-> passed, message |-> message]

IsPassed(c) == c.passed
IsFailed(c) == ~c.passed

\* printSummary(checks): the counts it prints, the "Failed checks" lines it
\* prints (empty when failed = 0), the exit code it returns, and the array
\* as it is after the call.
\* printSummary that decides on the passed count instead of the failed count
printSummaryMut(cs) ==
  LET passed == Len(SelectSeq(cs, IsPassed))
      failed == Len(SelectSeq(cs, IsFailed))
      total  == Len(cs)
  IN [passed |-> passed, failed |-> failed, total |-> total,
      printed |-> IF failed > 0 THEN SelectSeq(cs, IsFailed) ELSE <<>>,
      code |-> IF passed > 0 THEN 0 ELSE 1, checks |-> cs]

printSummary(cs) ==
  LET passed == Len(SelectSeq(cs, IsPassed))
      failed == Len(SelectSeq(cs, IsFailed))
      total  == Len(cs)
  IN [passed  |-> passed,
      failed  |-> failed,
      total   |-> total,
      printed |-> IF failed > 0 THEN SelectSeq(cs, IsFailed) ELSE <<>>,
      code    |-> IF failed = 0 THEN 0 ELSE 1,
      checks  |-> cs]

(***************************************************************************)
(* utils.ts: maskSecret.  A string is the sequence of its characters.      *)
(***************************************************************************)
\* c.repeat(k)
Repeat(c, k) == [i \in 1..k |-> c]
\* s.substring(a, b) for 0 <= a <= b: the indexes are clamped to the length
Substring(s, a, b) ==
  LET lo == IF a > Len(s) THEN Len(s) ELSE a
      hi == IF b > Len(s) THEN Len(s) ELSE b
  IN SubSeq(s, lo + 1, hi)
\* '<empty>'
EmptyPlaceholder == <<"<", "e", "m", "p", "t", "y", ">">>

\* maskSecret with < for <=
maskSecretMut(secret, show) ==
  IF secret = <<>> THEN EmptyPlaceholder
  ELSE IF Len(secret) < show THEN Repeat("*", Len(secret))
  ELSE Substring(secret, 0, show) \o Repeat("*", Len(secret) - show)

maskSecret(secret, show) ==
  IF secret = <<>> THEN EmptyPlaceholder
  ELSE IF Len(secret) <= show THEN Repeat("*", Len(secret))
  ELSE Substring(secret, 0, show) \o Repeat("*", Len(secret) - show)

(***************************************************************************)
(* Strings of the environment.  A value is described by the syntactic      *)
(* features the program inspects: whether `new URL` accepts it, its scheme *)
(* and port text, whether it has a colon-separated tail, and where an      *)
(* unresolved ${...} placeholder sits in it.                               *)
(*   kind  "unset"      the variable is absent                             *)
(*         "url"        scheme://[user:pass@]host[:port][/path]            *)
(*         "malformed"  non-empty text without a scheme ("not a url")      *)
(*         "hostport"   host:tail (tail numeric or not)                    *)
(*         "host"       a bare host name                                   *)
(*         "num"        decimal digits                                     *)
(*         "word"       any other non-empty text (a key, a bucket, "abc")  *)
(*   port  the port text: NullPort (none), IntPort(n) or NaNPort (a tail   *)
(*         that parseInt cannot read)                                      *)
(*   phs, phe, len: the first ${...} occupies [phs, phe) of the len        *)
(*         characters (phe = 0: no placeholder)                            *)
(***************************************************************************)
IntPort(n) == [t |-> "int", n |-> n]
NullPort == [t |-> "null", n |-> 0]
NaNPort == [t |-> "nan", n |-> 0]

Str(kind, scheme, port) ==
  [kind |-> kind, scheme |-> scheme, port |-> port, phs |-> 0, phe |-> 0, len |-> 20]
Unset == [kind |-> "unset", scheme |-> "", port |-> NullPort, phs |-> 0, phe |-> 0, len |-> 0]
Url(scheme, port) == Str("url", scheme, port)
Malformed == Str("malformed", "", NullPort)
HostPort(port) == Str("hostport", "", port)
Host == Str("host", "", NullPort)
Num(n) == Str("num", "", IntPort(n))
Word == Str("word", "", NullPort)
\* "${db.DATABASE_URL}": an unresolved App Platform bindable variable
Placeholder == [kind |-> "malformed", scheme |-> "", port |-> NullPort,
                phs |-> 0, phe |-> 18, len |-> 18]

\* "s3cr3t${db.PASSWORD}pad...": a value with text around a placeholder
SecretRef == [kind |-> "word", scheme |-> "", port |-> NullPort,
              phs |-> 6, phe |-> 20, len |-> 24]

\* JavaScript truthiness of process.env[name]
IsSet(v) == v.kind # "unset"

(***************************************************************************)
(* The environment variables the runners read.                             *)
(***************************************************************************)
DbNames == {"DATABASE_URL", "DATABASE_PRIVATE_URL", "POSTGRES_URL", "POSTGRES_PRIVATE_URL",
            "PG_URL", "PG_PRIVATE_URL", "MYSQL_URL", "MYSQL_PRIVATE_URL",
            "MYSQL_DATABASE_URL", "MYSQL_DATABASE_PRIVATE_URL",
            "MONGODB_URI", "MONGODB_PRIVATE_URI", "MONGODB_URL", "MONGODB_PRIVATE_URL",
            "MONGO_URL", "MONGO_PRIVATE_URL"}
CacheNames == {"REDIS_URL", "REDIS_PRIVATE_URL", "VALKEY_URL", "VALKEY_PRIVATE_URL",
               "CACHE_URL", "CACHE_PRIVATE_URL"}
KafkaNames == {"KAFKA_BROKER", "KAFKA_BROKERS", "KAFKA_HOST", "KAFKA_HOSTNAME", "KAFKA_PORT",
               "KAFKA_USERNAME", "KAFKA_PASSWORD", "KAFKA_CA_CERT", "CA_CERT"}
OpenSearchNames == {"OPENSEARCH_URL", "OPENSEARCH_PRIVATE_URL", "OPENSEARCH_HOST",
                    "OPENSEARCH_HOSTNAME", "OPENSEARCH_PORT", "OPENSEARCH_USERNAME",
                    "OPENSEARCH_PASSWORD"}
SpacesNames == {"SPACES_ACCESS_KEY", "DO_SPACES_KEY", "AWS_ACCESS_KEY_ID",
                "SPACES_SECRET_KEY", "DO_SPACES_SECRET", "AWS_SECRET_ACCESS_KEY",
                "SPACES_BUCKET", "DO_SPACES_BUCKET", "S3_BUCKET",
                "SPACES_REGION", "DO_SPACES_REGION", "AWS_REGION",
                "SPACES_ENDPOINT", "DO_SPACES_ENDPOINT", "AWS_ENDPOINT_URL"}
GradientNames == {"MODEL_ACCESS_KEY", "GRADIENT_ACCESS_KEY", "DO_AI_ACCESS_KEY",
                  "INFERENCE_ENDPOINT", "GRADIENT_ENDPOINT"}
Names == DbNames \cup CacheNames \cup KafkaNames \cup OpenSearchNames
         \cup SpacesNames \cup GradientNames

\* process.env with exactly the variables of `assign` (a set of <<name, value>>) set
EnvOf(assign) ==
  [n \in Names |-> IF \E a \in assign : a[1] = n
                   THEN (CHOOSE a \in assign : a[1] = n)[2] ELSE Unset]

\* a || b on two environment values
Or(a, b) == IF IsSet(a) THEN a ELSE b

(***************************************************************************)
(* utils.ts: hasVpcInterface, getConnectionUrl, parseUrl, tcpCheck.        *)
(***************************************************************************)
hasVpcInterface(isVpc) == isVpc

\* getConnectionUrl that prefers the private URL without asking for a VPC
getConnectionUrlMut(e, isVpc, urlKey, privateUrlKey) ==
  IF privateUrlKey # "" /\ IsSet(e[privateUrlKey])
  THEN e[privateUrlKey]
  ELSE e[urlKey]

\* getConnectionUrl(urlKey, privateUrlKey) in environment e
getConnectionUrl(e, isVpc, urlKey, privateUrlKey) ==
  IF privateUrlKey # "" /\ hasVpcInterface(isVpc) /\ IsSet(e[privateUrlKey])
  THEN e[privateUrlKey]
  ELSE e[urlKey]

\* new URL(s): accepted or TypeError; protocol, and port with the scheme's
\* own default port dropped for the special schemes of the URL standard.
SpecialSchemePort(scheme) ==
  CASE scheme = "http"  -> IntPort(80)
    [] scheme = "https" -> IntPort(443)
    [] scheme = "ws"    -> IntPort(80)
    [] scheme = "wss"   -> IntPort(443)
    [] scheme = "ftp"   -> IntPort(21)
    [] OTHER            -> NullPort

NewUrl(s) ==
  CASE s.kind = "url" ->
         [ok |-> TRUE, scheme |-> s.scheme, host |-> "h",
          port |-> IF s.port = SpecialSchemePort(s.scheme) THEN NullPort ELSE s.port]
    [] s.kind = "hostport" ->
         \* "host:tail" reads as scheme "host" with an opaque path
         [ok |-> TRUE, scheme |-> "host", host |-> "", port |-> NullPort]
    [] OTHER -> [ok |-> FALSE, scheme |-> "", host |-> "", port |-> NullPort]

DefaultPorts ==
  [postgresql |-> 5432, postgres |-> 5432, mysql |-> 3306, mongodb |-> 27017,
   mongodbsrv |-> 27017, redis |-> 6379, rediss |-> 6379]
SchemeKey(scheme) == IF scheme = "mongodb+srv" THEN "mongodbsrv" ELSE scheme

\* the names every object literal inherits from Object.prototype that are
\* valid (lower-case) URL schemes: defaults[name] is a function, not undefined
InheritedKeys == {"constructor"}
FnPort == [t |-> "function", n |-> 0]

\* parseUrl(urlString): ok = FALSE when new URL throws
parseUrl(s) ==
  LET url == NewUrl(s)
      port == IF url.port # NullPort THEN url.port
              ELSE IF SchemeKey(url.scheme) \in DOMAIN DefaultPorts
                   THEN IntPort(DefaultPorts[SchemeKey(url.scheme)])
                   ELSE IF url.scheme \in InheritedKeys THEN FnPort
                   ELSE NullPort
  IN [ok |-> url.ok, scheme |-> url.scheme, host |-> url.host, port |-> port]

\* tcpCheck(host, port): socket.connect(port, host) throws inside the promise
\* executor unless the port is a number in 0..65535, and the promise rejects.
tcpCheckRejects(port) == ~(port.t = "int" /\ port.n \in 0..65535)

(***************************************************************************)
(* One runChecks call: its result, the records and the awaited operations. *)
(***************************************************************************)
NoRet == [kind |-> "none", code |-> 0]
Returned(code) == [kind |-> "return", code |-> code]
Threw == [kind |-> "throw", code |-> 0]

\* a record of the suite (the message text is not modelled here)
Rec(name, passed) == CheckResult(name, passed, "")
\* an awaited operation and how it settled: "ok", "fail" or "hang"
Op(name, res) == [op |-> name, res |-> res]

\* The timeout in ms that bounds an awaited operation; 0 when the code
\* passes none to the driver and the driver has no default.
\*   tcpCheck: setTimeout(..., 5000)               utils.ts:231-238
\*   dns.lookup: bounded by the system resolver
\*   ioredis: connectTimeout, commandTimeout 10000     cache.ts:53-54
\*   kafkajs: connectionTimeout, requestTimeout 10000  kafka.ts:143-144
\*   mysql2: connectTimeout 10000 (connect only)       database.ts:165
\*   mongodb: serverSelectionTimeoutMS 10000 (connect) database.ts:260
\*   https.request / axios: timeout 10000              gradient.ts:96,143,219
\*   opensearch: requestTimeout defaults to 30000 in the client
\*   pg, mysql2 queries, mongodb commands, S3Client: none
Timeout(op) ==
  CASE op \in {"tcp"} -> 5000
    [] op \in {"dns"} -> 5000
    [] op \in {"redis.connect", "redis.ping", "redis.info", "redis.set", "redis.get",
               "redis.del", "redis.verify", "redis.quit"} -> 10000
    [] op \in {"kafka.admin.connect", "kafka.listTopics", "kafka.admin.disconnect",
               "kafka.producer.connect", "kafka.send", "kafka.producer.disconnect",
               "kafka.consumer.connect", "kafka.subscribe",
               "kafka.consumer.disconnect"} -> 10000
    [] op \in {"mysql.connect", "mongo.connect"} -> 10000
    [] op \in {"https.head", "axios.get", "https.get"} -> 10000
    [] op \in {"os.health", "os.info", "os.indices", "os.predelete", "os.create",
               "os.index", "os.search", "os.delete", "os.drop", "os.cleanup",
               "os.close"} -> 30000
    [] OTHER -> 0

\* how an awaited operation can settle
Settles(op) == IF Timeout(op) > 0 THEN {"ok", "fail"} ELSE {"ok", "fail", "hang"}

\* ---- continuations of a runner (everything outside runVars is unchanged)
Frame == UNCHANGED <<sideVars, cfgVars, mainVars>>

\* go on to the await point st, statement k of the write probe
GotoW(st, k, recs, done, cl) ==
  /\ stage' = st
  /\ wstep' = k
  /\ checks' = checks \o recs
  /\ ops' = ops \o done
  /\ client' = cl
  /\ UNCHANGED <<runner, allChecks, dbTodo, target, ret>>
  /\ Frame

\* go on to the await point st
Goto(st, recs, done, cl) == GotoW(st, 0, recs, done, cl)

\* the validator returns its checks; runChecks returns printSummary(checks)
Finish(recs, done, cl) ==
  /\ stage' = "end"
  /\ wstep' = 0
  /\ checks' = checks \o recs
  /\ ops' = ops \o done
  /\ client' = cl
  /\ ret' = Returned(printSummary(checks \o recs).code)
  /\ UNCHANGED <<runner, allChecks, dbTodo, target>>
  /\ Frame

\* runChecks returns 0 without running a validator ("skipping ... checks")
Skip ==
  /\ stage' = "end"
  /\ ret' = Returned(0)
  /\ UNCHANGED <<runner, checks, allChecks, dbTodo, ops, client, target, wstep>>
  /\ Frame

\* an exception leaves runChecks
Escape(done) ==
  /\ stage' = "end"
  /\ wstep' = 0
  /\ ops' = ops \o done
  /\ ret' = Threw
  /\ UNCHANGED <<runner, checks, allChecks, dbTodo, client, target>>
  /\ Frame

\* the awaited promise never settles
Hang(op) ==
  /\ stage' = "hung"
  /\ ops' = ops \o <<Op(op, "hang")>>
  /\ UNCHANGED <<runner, checks, allChecks, dbTodo, client, target, wstep, ret>>
  /\ Frame

\* await op: OnOk when it resolves, OnFail when it rejects
Await(op, OnOk, OnFail) ==
  \E r \in Settles(op) :
    CASE r = "ok" -> OnOk
      [] r = "fail" -> OnFail
      [] r = "hang" -> Hang(op)

\* a validator is called with url: fresh locals, parseUrl(url), and its first
\* await, tcpCheck(parsed.host, parsed.port), at st
CallValidator(url, st) ==
  /\ target' = url
  /\ checks' = <<>> /\ ops' = <<>> /\ client' = "none" /\ wstep' = 0
  /\ IF ~parseUrl(url).ok \/ tcpCheckRejects(parseUrl(url).port)
     THEN stage' = "end" /\ ret' = Threw
     ELSE stage' = st /\ ret' = ret
  /\ UNCHANGED <<runner, allChecks>>
  /\ Frame

(***************************************************************************)
(* cache.ts: runChecks and validateRedis.                                  *)
(***************************************************************************)
CacheUrlConfigs == << <<"REDIS_URL", "REDIS_PRIVATE_URL">>,
                      <<"VALKEY_URL", "VALKEY_PRIVATE_URL">>,
                      <<"CACHE_URL", "CACHE_PRIVATE_URL">> >>

\* the first pair of cfgs whose getConnectionUrl is set, as an index (0: none)
FirstSet(e, isVpc, cfgs) ==
  LET hit == {i \in 1..Len(cfgs) : IsSet(getConnectionUrl(e, isVpc, cfgs[i][1], cfgs[i][2]))}
  IN IF hit = {} THEN 0 ELSE CHOOSE i \in hit : \A j \in hit : i <= j

cacheUrl(e, isVpc) ==
  LET i == FirstSet(e, isVpc, CacheUrlConfigs)
  IN IF i = 0 THEN Unset
     ELSE getConnectionUrl(e, isVpc, CacheUrlConfigs[i][1], CacheUrlConfigs[i][2])

cacheRunChecks ==
  /\ runner = "cache" /\ stage = "call"
  /\ IF ~IsSet(cacheUrl(env, vpc)) THEN Skip
     ELSE CallValidator(cacheUrl(env, vpc), "redis.tcp") /\ UNCHANGED dbTodo

\* catch (err) of cache.ts:129-144; the runner then returns its checks
RedisConnectionCatch(op, noauth) ==
  Finish(<<Rec("Redis Connection", FALSE)>>
           \o (IF noauth THEN <<Rec("Redis Auth", FALSE)>> ELSE <<>>),
         <<Op(op, "fail")>>, client)

\* catch (err) of cache.ts:115-126; the runner goes on to client.quit()
RedisOperationsCatch(op) ==
  Goto("redis.quit", <<Rec("Redis Operations", FALSE)>>, <<Op(op, "fail")>>, client)

redisTcp ==
  /\ runner = "cache" /\ stage = "redis.tcp"
  /\ Await("tcp",
           Goto("redis.import", <<Rec("Redis TCP", TRUE)>>, <<Op("tcp", "ok")>>, client),
           Finish(<<Rec("Redis TCP", FALSE)>>, <<Op("tcp", "fail")>>, client))

redisImport ==
  /\ runner = "cache" /\ stage = "redis.import"
  /\ \/ Goto("redis.connect", <<>>, <<Op("import", "ok")>>, "constructed")
     \/ Finish(<<Rec("Redis Driver", FALSE)>>, <<Op("import", "fail")>>, client)

redisConnect ==
  /\ runner = "cache" /\ stage = "redis.connect"
  /\ \E noauth \in BOOLEAN :
       Await("redis.connect",
             Goto("redis.ping", <<>>, <<Op("redis.connect", "ok")>>, "connected"),
             RedisConnectionCatch("redis.connect", noauth))

redisPing ==
  /\ runner = "cache" /\ stage = "redis.ping"
  /\ \E noauth, pong \in BOOLEAN :
       Await("redis.ping",
             IF pong
             THEN Goto("redis.info", <<Rec("Redis PING", TRUE)>>,
                       <<Op("redis.ping", "ok")>>, client)
             ELSE Goto("redis.quitEarly", <<Rec("Redis PING", FALSE)>>,
                       <<Op("redis.ping", "ok")>>, client),
             RedisConnectionCatch("redis.ping", noauth))

redisQuitEarly ==
  /\ runner = "cache" /\ stage = "redis.quitEarly"
  /\ \E noauth \in BOOLEAN :
       Await("redis.quit",
             Finish(<<>>, <<Op("redis.quit", "ok")>>, "closed"),
             RedisConnectionCatch("redis.quit", noauth))

redisInfo ==
  /\ runner = "cache" /\ stage = "redis.info"
  /\ \E version \in BOOLEAN :
       Await("redis.info",
             Goto("redis.set", IF version THEN <<Rec("Redis Server", TRUE)>> ELSE <<>>,
                  <<Op("redis.info", "ok")>>, client),
             Goto("redis.set", <<>>, <<Op("redis.info", "fail")>>, client))

redisSet ==
  /\ runner = "cache" /\ stage = "redis.set"
  /\ Await("redis.set",
           Goto("redis.get", <<Rec("Redis SET", TRUE)>>, <<Op("redis.set", "ok")>>, client),
           RedisOperationsCatch("redis.set"))

redisGet ==
  /\ runner = "cache" /\ stage = "redis.get"
  /\ \E same \in BOOLEAN :
       Await("redis.get",
             Goto("redis.del", <<Rec("Redis GET", same)>>, <<Op("redis.get", "ok")>>, client),
             RedisOperationsCatch("redis.get"))

redisDel ==
  /\ runner = "cache" /\ stage = "redis.del"
  /\ Await("redis.del",
           Goto("redis.verify", <<Rec("Redis DELETE", TRUE)>>, <<Op("redis.del", "ok")>>, client),
           RedisOperationsCatch("redis.del"))

redisVerify ==
  /\ runner = "cache" /\ stage = "redis.verify"
  /\ Await("redis.verify",
           Goto("redis.quit", <<>>, <<Op("redis.verify", "ok")>>, client),
           RedisOperationsCatch("redis.verify"))

redisQuit ==
  /\ runner = "cache" /\ stage = "redis.quit"
  /\ \E noauth \in BOOLEAN :
       Await("redis.quit",
             Finish(<<>>, <<Op("redis.quit", "ok")>>, "closed"),
             RedisConnectionCatch("redis.quit", noauth))

validateRedis ==
  \/ redisTcp \/ redisImport \/ redisConnect \/ redisPing \/ redisQuitEarly
  \/ redisInfo \/ redisSet \/ redisGet \/ redisDel \/ redisVerify \/ redisQuit

(***************************************************************************)
(* index.ts: the command line as main reads it.                            *)
(***************************************************************************)
\* arg.startsWith('-') on the arguments of the model
StartsWithDash(arg) == arg \in {"-v", "--verbose", "-h", "--help", "--required", "-x"}
IsVerboseFlag(arg) == arg \in {"-v", "--verbose"}
NotVerboseFlag(arg) == ~IsVerboseFlag(arg)
NotDash(arg) == ~StartsWithDash(arg)
Includes(args, a) == \E i \in 1..Len(args) : args[i] = a

verboseOf(args) == Includes(args, "-v") \/ Includes(args, "--verbose")
filteredArgs(args) == SelectSeq(args, NotVerboseFlag)
\* help that is recognised only as the first argument
helpOfMut(args) == args # <<>> /\ Head(args) \in {"-h", "--help"}

helpOf(args) == Includes(args, "-h") \/ Includes(args, "--help")
\* filteredArgs.find((arg) => !arg.startsWith('-')) || 'all'
commandOf(args) ==
  LET plain == SelectSeq(filteredArgs(args), NotDash)
  IN IF plain = <<>> THEN "all" ELSE Head(plain)

(***************************************************************************)
(* database.ts: runChecks, detectDatabaseType and the three validators.    *)
(***************************************************************************)
DbTypes == <<"postgresql", "mysql", "mongodb">>

dbConfigs(dtype) ==
  CASE dtype = "postgresql" -> << <<"DATABASE_URL", "DATABASE_PRIVATE_URL">>,
                                  <<"POSTGRES_URL", "POSTGRES_PRIVATE_URL">>,
                                  <<"PG_URL", "PG_PRIVATE_URL">> >>
    [] dtype = "mysql"      -> << <<"MYSQL_URL", "MYSQL_PRIVATE_URL">>,
                                  <<"MYSQL_DATABASE_URL", "MYSQL_DATABASE_PRIVATE_URL">> >>
    [] dtype = "mongodb"    -> << <<"MONGODB_URI", "MONGODB_PRIVATE_URI">>,
                                  <<"MONGODB_URL", "MONGODB_PRIVATE_URL">>,
                                  <<"MONGO_URL", "MONGO_PRIVATE_URL">> >>
    [] OTHER                -> <<>>

\* detectDatabaseType(url): "" stands for null
detectDatabaseType(url) ==
  IF url.kind # "url" THEN ""
  ELSE CASE url.scheme \in {"postgresql", "postgres"} -> "postgresql"
         [] url.scheme = "mysql" -> "mysql"
         [] url.scheme \in {"mongodb", "mongodb+srv"} -> "mongodb"
         [] OTHER -> ""

\* the inner loop of runChecks without the test of the detected type
dbUrlMut(e, isVpc, dtype) ==
  LET cfgs == dbConfigs(dtype)
      urlAt(i) == getConnectionUrl(e, isVpc, cfgs[i][1], cfgs[i][2])
      hit == {i \in 1..Len(cfgs) : IsSet(urlAt(i))}
  IN IF hit = {} THEN Unset ELSE urlAt(CHOOSE i \in hit : \A j \in hit : i <= j)

\* the inner loop of runChecks for dtype: the URL it validates (Unset: none)
dbUrl(e, isVpc, dtype) ==
  LET cfgs == dbConfigs(dtype)
      urlAt(i) == getConnectionUrl(e, isVpc, cfgs[i][1], cfgs[i][2])
      hit == {i \in 1..Len(cfgs) :
                IsSet(urlAt(i)) /\ detectDatabaseType(urlAt(i)) \in {dtype, ""}}
  IN IF hit = {} THEN Unset ELSE urlAt(CHOOSE i \in hit : \A j \in hit : i <= j)

\* the dbType argument main passes: the first known type name after the command
DbTypeArgs == {"postgresql", "mysql", "mongodb", "pg", "postgres", "mongo"}
IsDbTypeArg(arg) == arg \in DbTypeArgs
dbTypeOf(args) ==
  LET rest == SelectSeq(Tail(filteredArgs(args)), IsDbTypeArg)
  IN IF rest = <<>> THEN "" ELSE Head(rest)

\* runChecks(dbType, verbose) up to its outer loop
databaseRunChecks ==
  /\ runner = "database" /\ stage = "call"
  /\ dbTodo' = IF pc = "single" /\ dbTypeOf(argv) # "" THEN <<dbTypeOf(argv)>> ELSE DbTypes
  /\ stage' = "db.loop"
  /\ UNCHANGED <<runner, checks, allChecks, ops, client, target, wstep, ret>>
  /\ Frame

\* one round of the outer loop, and what follows the loop
dbLoop ==
  /\ runner = "database" /\ stage = "db.loop"
  /\ IF dbTodo = <<>>
     THEN /\ stage' = "end"
          /\ ret' = Returned(IF allChecks = <<>> THEN 0 ELSE printSummary(allChecks).code)
          /\ UNCHANGED <<runner, checks, allChecks, dbTodo, ops, client, target, wstep>>
          /\ Frame
     ELSE /\ dbTodo' = Tail(dbTodo)
          /\ IF ~IsSet(dbUrl(env, vpc, Head(dbTodo)))
             THEN /\ UNCHANGED <<runner, stage, checks, allChecks, ops, client, target,
                                 wstep, ret>>
                  /\ Frame
             ELSE CASE Head(dbTodo) = "postgresql" ->
                         CallValidator(dbUrl(env, vpc, "postgresql"), "pg.tcp")
                    [] Head(dbTodo) = "mysql" ->
                         CallValidator(dbUrl(env, vpc, "mysql"), "mysql.tcp")
                    [] Head(dbTodo) = "mongodb" ->
                         CallValidator(dbUrl(env, vpc, "mongodb"),
                                       IF dbUrl(env, vpc, "mongodb").scheme = "mongodb+srv"
                                       THEN "mongo.import" ELSE "mongo.tcp")

\* a database validator returns: allChecks.push(...checks), and on with the loop
DbFinish(recs, done, cl) ==
  /\ stage' = "db.loop"
  /\ wstep' = 0
  /\ checks' = checks \o recs
  /\ allChecks' = allChecks \o checks \o recs
  /\ ops' = ops \o done
  /\ client' = cl
  /\ UNCHANGED <<runner, dbTodo, target, ret>>
  /\ Frame

\* One statement of a write probe.  probe[k] names the awaited operation
\* and the record pushed when it succeeds ("" for none); the last statement
\* leaves the try block for st, a failure pushes failRec and goes to failSt.
WriteStep(probe, here, st, failSt, failRec) ==
  Await(probe[wstep].op,
        IF wstep < Len(probe)
        THEN GotoW(here, wstep + 1,
                   IF probe[wstep].rec = "" THEN <<>> ELSE <<Rec(probe[wstep].rec, TRUE)>>,
                   <<Op(probe[wstep].op, "ok")>>, client)
        ELSE Goto(st,
                  IF probe[wstep].rec = "" THEN <<>> ELSE <<Rec(probe[wstep].rec, TRUE)>>,
                  <<Op(probe[wstep].op, "ok")>>, client),
        Goto(failSt, <<Rec(failRec, FALSE)>>, <<Op(probe[wstep].op, "fail")>>, client))

\* ---- validatePostgresql
PgWriteProbe ==
  << [op |-> "pg.dropIfExists", rec |-> ""],
     [op |-> "pg.create", rec |-> "PostgreSQL CREATE"],
     [op |-> "pg.insert", rec |-> "PostgreSQL INSERT"],
     [op |-> "pg.select", rec |-> "PostgreSQL SELECT"],
     [op |-> "pg.update", rec |-> "PostgreSQL UPDATE"],
     [op |-> "pg.delete", rec |-> "PostgreSQL DELETE"],
     [op |-> "pg.drop", rec |-> ""] >>

\* catch (err) of database.ts:103-117
PgConnectionCatch(op) ==
  DbFinish(<<Rec("PostgreSQL Connection", FALSE)>>, <<Op(op, "fail")>>, client)

\* validatePostgresql without the early return after a failed TCP check
pgTcpMut ==
  /\ runner = "database" /\ stage = "pg.tcp"
  /\ Await("tcp",
           Goto("pg.import", <<Rec("PostgreSQL TCP", TRUE)>>, <<Op("tcp", "ok")>>, client),
           Goto("pg.import", <<Rec("PostgreSQL TCP", FALSE)>>, <<Op("tcp", "fail")>>, client))

pgTcp ==
  /\ runner = "database" /\ stage = "pg.tcp"
  /\ Await("tcp",
           Goto("pg.import", <<Rec("PostgreSQL TCP", TRUE)>>, <<Op("tcp", "ok")>>, client),
           DbFinish(<<Rec("PostgreSQL TCP", FALSE)>>, <<Op("tcp", "fail")>>, client))

pgImport ==
  /\ runner = "database" /\ stage = "pg.import"
  /\ \/ Goto("pg.connect", <<>>, <<Op("import", "ok")>>, "constructed")
     \/ DbFinish(<<Rec("PostgreSQL Driver", FALSE)>>, <<Op("import", "fail")>>, client)

\* validatePostgresql that goes on to the version query after a failed connect
pgConnectMut ==
  /\ runner = "database" /\ stage = "pg.connect"
  /\ Await("pg.connect",
           Goto("pg.version", <<Rec("PostgreSQL Connection", TRUE)>>,
                <<Op("pg.connect", "ok")>>, "connected"),
           Goto("pg.version", <<Rec("PostgreSQL Connection", FALSE)>>,
                <<Op("pg.connect", "fail")>>, client))

pgConnect ==
  /\ runner = "database" /\ stage = "pg.connect"
  /\ Await("pg.connect",
           Goto("pg.version", <<Rec("PostgreSQL Connection", TRUE)>>,
                <<Op("pg.connect", "ok")>>, "connected"),
           PgConnectionCatch("pg.connect"))

pgVersion ==
  /\ runner = "database" /\ stage = "pg.version"
  /\ Await("pg.version",
           GotoW("pg.write", 1, <<Rec("PostgreSQL Query", TRUE)>>,
                 <<Op("pg.version", "ok")>>, client),
           PgConnectionCatch("pg.version"))

pgWrite ==
  /\ runner = "database" /\ stage = "pg.write"
  /\ WriteStep(PgWriteProbe, "pg.write", "pg.end", "pg.end", "PostgreSQL Permissions")

pgEnd ==
  /\ runner = "database" /\ stage = "pg.end"
  /\ Await("pg.end",
           DbFinish(<<>>, <<Op("pg.end", "ok")>>, "closed"),
           PgConnectionCatch("pg.end"))

validatePostgresql == pgTcp \/ pgImport \/ pgConnect \/ pgVersion \/ pgWrite \/ pgEnd

\* ---- validateMysql
MysqlWriteProbe ==
  << [op |-> "mysql.dropIfExists", rec |-> ""],
     [op |-> "mysql.create", rec |-> "MySQL CREATE"],
     [op |-> "mysql.insert", rec |-> "MySQL INSERT"],
     [op |-> "mysql.select", rec |-> "MySQL SELECT"],
     [op |-> "mysql.update", rec |-> "MySQL UPDATE"],
     [op |-> "mysql.delete", rec |-> "MySQL DELETE"],
     [op |-> "mysql.drop", rec |-> ""] >>

\* catch (err) of database.ts:213-224
MysqlConnectionCatch(op) ==
  DbFinish(<<Rec("MySQL Connection", FALSE)>>, <<Op(op, "fail")>>, client)

mysqlTcp ==
  /\ runner = "database" /\ stage = "mysql.tcp"
  /\ Await("tcp",
           Goto("mysql.import", <<Rec("MySQL TCP", TRUE)>>, <<Op("tcp", "ok")>>, client),
           DbFinish(<<Rec("MySQL TCP", FALSE)>>, <<Op("tcp", "fail")>>, client))

mysqlImport ==
  /\ runner = "database" /\ stage = "mysql.import"
  /\ \/ Goto("mysql.connect", <<>>, <<Op("import", "ok")>>, "constructed")
     \/ DbFinish(<<Rec("MySQL Driver", FALSE)>>, <<Op("import", "fail")>>, client)

mysqlConnect ==
  /\ runner = "database" /\ stage = "mysql.connect"
  /\ Await("mysql.connect",
           Goto("mysql.version", <<Rec("MySQL Connection", TRUE)>>,
                <<Op("mysql.connect", "ok")>>, "connected"),
           MysqlConnectionCatch("mysql.connect"))

mysqlVersion ==
  /\ runner = "database" /\ stage = "mysql.version"
  /\ Await("mysql.version",
           GotoW("mysql.write", 1, <<Rec("MySQL Query", TRUE)>>,
                 <<Op("mysql.version", "ok")>>, client),
           MysqlConnectionCatch("mysql.version"))

mysqlWrite ==
  /\ runner = "database" /\ stage = "mysql.write"
  /\ WriteStep(MysqlWriteProbe, "mysql.write", "mysql.end", "mysql.end", "MySQL Permissions")

mysqlEnd ==
  /\ runner = "database" /\ stage = "mysql.end"
  /\ Await("mysql.end",
           DbFinish(<<>>, <<Op("mysql.end", "ok")>>, "closed"),
           MysqlConnectionCatch("mysql.end"))

validateMysql ==
  mysqlTcp \/ mysqlImport \/ mysqlConnect \/ mysqlVersion \/ mysqlWrite \/ mysqlEnd

\* ---- validateMongodb
MongoWriteProbe ==
  << [op |-> "mongo.insertOne", rec |-> "MongoDB INSERT"],
     [op |-> "mongo.findOne", rec |-> "MongoDB FIND"],
     [op |-> "mongo.updateOne", rec |-> "MongoDB UPDATE"],
     [op |-> "mongo.deleteOne", rec |-> "MongoDB DELETE"],
     [op |-> "mongo.dropCollection", rec |-> ""] >>

\* catch (err) of database.ts:326-337
MongoConnectionCatch(done) ==
  DbFinish(<<Rec("MongoDB Connection", FALSE)>>, done, client)

mongoTcp ==
  /\ runner = "database" /\ stage = "mongo.tcp"
  /\ Await("tcp",
           Goto("mongo.import", <<Rec("MongoDB TCP", TRUE)>>, <<Op("tcp", "ok")>>, client),
           DbFinish(<<Rec("MongoDB TCP", FALSE)>>, <<Op("tcp", "fail")>>, client))

\* new MongoClient(url) rejects a connection string of another scheme
mongoImport ==
  /\ runner = "database" /\ stage = "mongo.import"
  /\ \/ IF target.scheme \in {"mongodb", "mongodb+srv"}
        THEN Goto("mongo.connect", <<>>, <<Op("import", "ok")>>, "constructed")
        ELSE MongoConnectionCatch(<<Op("import", "ok")>>)
     \/ DbFinish(<<Rec("MongoDB Driver", FALSE)>>, <<Op("import", "fail")>>, client)

mongoConnect ==
  /\ runner = "database" /\ stage = "mongo.connect"
  /\ Await("mongo.connect",
           Goto("mongo.ping", <<>>, <<Op("mongo.connect", "ok")>>, "connected"),
           MongoConnectionCatch(<<Op("mongo.connect", "fail")>>))

mongoPing ==
  /\ runner = "database" /\ stage = "mongo.ping"
  /\ Await("mongo.ping",
           Goto("mongo.serverStatus", <<Rec("MongoDB Connection", TRUE)>>,
                <<Op("mongo.ping", "ok")>>, client),
           MongoConnectionCatch(<<Op("mongo.ping", "fail")>>))

mongoServerStatus ==
  /\ runner = "database" /\ stage = "mongo.serverStatus"
  /\ Await("mongo.serverStatus",
           GotoW("mongo.write", 1, <<Rec("MongoDB Server", TRUE)>>,
                 <<Op("mongo.serverStatus", "ok")>>, client),
           Goto("mongo.buildInfo", <<>>, <<Op("mongo.serverStatus", "fail")>>, client))

mongoBuildInfo ==
  /\ runner = "database" /\ stage = "mongo.buildInfo"
  /\ Await("mongo.buildInfo",
           GotoW("mongo.write", 1, <<Rec("MongoDB Server", TRUE)>>,
                 <<Op("mongo.buildInfo", "ok")>>, client),
           GotoW("mongo.write", 1, <<>>, <<Op("mongo.buildInfo", "fail")>>, client))

\* findOne may resolve to null: then no FIND record is pushed
mongoWrite ==
  /\ runner = "database" /\ stage = "mongo.write"
  /\ \/ WriteStep(MongoWriteProbe, "mongo.write", "mongo.close", "mongo.close",
                    "MongoDB Operations")
     \/ /\ MongoWriteProbe[wstep].op = "mongo.findOne"
        /\ GotoW("mongo.write", wstep + 1, <<>>, <<Op("mongo.findOne", "ok")>>, client)

mongoClose ==
  /\ runner = "database" /\ stage = "mongo.close"
  /\ Await("mongo.close",
           DbFinish(<<>>, <<Op("mongo.close", "ok")>>, "closed"),
           MongoConnectionCatch(<<Op("mongo.close", "fail")>>))

validateMongodb ==
  \/ mongoTcp \/ mongoImport \/ mongoConnect \/ mongoPing \/ mongoServerStatus
  \/ mongoBuildInfo \/ mongoWrite \/ mongoClose

(***************************************************************************)
(* kafka.ts: getKafkaConfig, validateKafka, runChecks.                     *)
(***************************************************************************)
\* parseInt(text, 10) of a port text
parsePort(v) == IF v.kind = "num" THEN v.port ELSE NaNPort

\* getKafkaConfig that falls back to a default broker, as gradient does for
\* its endpoint
kafkaBrokerMut(e) ==
  LET broker == Or(e["KAFKA_BROKER"], e["KAFKA_BROKERS"])
      host == Or(e["KAFKA_HOST"], e["KAFKA_HOSTNAME"])
  IN IF IsSet(broker) THEN broker
     ELSE HostPort(IF IsSet(e["KAFKA_PORT"]) THEN parsePort(e["KAFKA_PORT"])
                   ELSE IntPort(25073))

\* getKafkaConfig().broker
kafkaBroker(e) ==
  LET broker == Or(e["KAFKA_BROKER"], e["KAFKA_BROKERS"])
      host == Or(e["KAFKA_HOST"], e["KAFKA_HOSTNAME"])
  IN IF IsSet(broker) THEN broker
     ELSE IF IsSet(host)
          THEN HostPort(IF IsSet(e["KAFKA_PORT"]) THEN parsePort(e["KAFKA_PORT"])
                        ELSE IntPort(25073))
          ELSE Unset

kafkaCaCert(e) == Or(e["KAFKA_CA_CERT"], e["CA_CERT"])

\* the port validateKafka reads off the broker: the text after the last ':'
kafkaPort(broker) ==
  IF broker.kind \in {"hostport", "url"}
  THEN IF broker.port.t = "int" THEN broker.port ELSE NaNPort
  ELSE IntPort(9092)

kafkaRunChecks ==
  /\ runner = "kafka" /\ stage = "call"
  /\ IF ~IsSet(kafkaBroker(env)) THEN Skip
     ELSE /\ target' = kafkaBroker(env)
          /\ IF tcpCheckRejects(kafkaPort(kafkaBroker(env)))
             THEN stage' = "end" /\ ret' = Threw
             ELSE stage' = "kafka.tcp" /\ ret' = ret
          /\ UNCHANGED <<runner, checks, allChecks, dbTodo, ops, client, wstep>>
          /\ Frame

\* an error message that names a missing topic
TopicErrors == {"UNKNOWN_TOPIC", "other"}

kafkaTcp ==
  /\ runner = "kafka" /\ stage = "kafka.tcp"
  /\ Await("tcp",
           Goto("kafka.import", <<Rec("Kafka TCP", TRUE)>>, <<Op("tcp", "ok")>>, client),
           Finish(<<Rec("Kafka TCP", FALSE)>>, <<Op("tcp", "fail")>>, client))

\* import('kafkajs'), then writeCaCert when a certificate is configured
kafkaImport ==
  /\ runner = "kafka" /\ stage = "kafka.import"
  /\ \/ Goto("kafka.admin.connect", <<>>, <<Op("import", "ok")>>, "constructed")
     \/ Finish(<<Rec("Kafka Driver", FALSE)>>, <<Op("import", "fail")>>, client)
     \/ /\ IsSet(kafkaCaCert(env))
        /\ Finish(<<Rec("Kafka Driver", FALSE)>>,
                  <<Op("import", "ok"), Op("fs.writeCaCert", "fail")>>, client)

kafkaAdminConnect ==
  /\ runner = "kafka" /\ stage = "kafka.admin.connect"
  /\ Await("kafka.admin.connect",
           Goto("kafka.listTopics", <<>>, <<Op("kafka.admin.connect", "ok")>>, "connected"),
           Finish(<<Rec("Kafka Connection", FALSE)>>,
                  <<Op("kafka.admin.connect", "fail")>>, client))

kafkaListTopics ==
  /\ runner = "kafka" /\ stage = "kafka.listTopics"
  /\ Await("kafka.listTopics",
           Goto("kafka.admin.disconnect", <<Rec("Kafka Connection", TRUE)>>,
                <<Op("kafka.listTopics", "ok")>>, client),
           Finish(<<Rec("Kafka Connection", FALSE)>>,
                  <<Op("kafka.listTopics", "fail")>>, client))

kafkaAdminDisconnect ==
  /\ runner = "kafka" /\ stage = "kafka.admin.disconnect"
  /\ Await("kafka.admin.disconnect",
           Goto("kafka.producer.connect", <<>>,
                <<Op("kafka.admin.disconnect", "ok")>>, "closed"),
           Finish(<<Rec("Kafka Connection", FALSE)>>,
                  <<Op("kafka.admin.disconnect", "fail")>>, client))

kafkaProducerConnect ==
  /\ runner = "kafka" /\ stage = "kafka.producer.connect"
  /\ Await("kafka.producer.connect",
           Goto("kafka.send", <<>>, <<Op("kafka.producer.connect", "ok")>>, "connected"),
           Goto("kafka.consumer.connect", <<Rec("Kafka Produce", FALSE)>>,
                <<Op("kafka.producer.connect", "fail")>>, client))

kafkaSend ==
  /\ runner = "kafka" /\ stage = "kafka.send"
  /\ \E msg \in TopicErrors :
       Await("kafka.send",
             Goto("kafka.producer.disconnect", <<Rec("Kafka Produce", TRUE)>>,
                  <<Op("kafka.send", "ok")>>, client),
             Goto("kafka.producer.disconnect",
                  <<Rec("Kafka Produce", msg = "UNKNOWN_TOPIC")>>,
                  <<Op("kafka.send", "fail")>>, client))

kafkaProducerDisconnect ==
  /\ runner = "kafka" /\ stage = "kafka.producer.disconnect"
  /\ Await("kafka.producer.disconnect",
           Goto("kafka.consumer.connect", <<>>,
                <<Op("kafka.producer.disconnect", "ok")>>, "closed"),
           Goto("kafka.consumer.connect", <<Rec("Kafka Produce", FALSE)>>,
                <<Op("kafka.producer.disconnect", "fail")>>, client))

kafkaConsumerConnect ==
  /\ runner = "kafka" /\ stage = "kafka.consumer.connect"
  /\ Await("kafka.consumer.connect",
           Goto("kafka.subscribe", <<>>, <<Op("kafka.consumer.connect", "ok")>>, "connected"),
           Finish(<<Rec("Kafka Subscribe", FALSE)>>,
                  <<Op("kafka.consumer.connect", "fail")>>, client))

kafkaSubscribe ==
  /\ runner = "kafka" /\ stage = "kafka.subscribe"
  /\ \E msg \in TopicErrors :
       Await("kafka.subscribe",
             Goto("kafka.consumer.disconnect", <<Rec("Kafka Subscribe", TRUE)>>,
                  <<Op("kafka.subscribe", "ok")>>, client),
             IF msg = "UNKNOWN_TOPIC"
             THEN Goto("kafka.consumer.disconnect", <<Rec("Kafka Subscribe", TRUE)>>,
                       <<Op("kafka.subscribe", "fail")>>, client)
             ELSE Finish(<<Rec("Kafka Subscribe", FALSE)>>,
                         <<Op("kafka.subscribe", "fail")>>, client))

kafkaConsumerDisconnect ==
  /\ runner = "kafka" /\ stage = "kafka.consumer.disconnect"
  /\ Await("kafka.consumer.disconnect",
           Finish(<<>>, <<Op("kafka.consumer.disconnect", "ok")>>, "closed"),
           Finish(<<Rec("Kafka Subscribe", FALSE)>>,
                  <<Op("kafka.consumer.disconnect", "fail")>>, client))

validateKafka ==
  \/ kafkaTcp \/ kafkaImport \/ kafkaAdminConnect \/ kafkaListTopics
  \/ kafkaAdminDisconnect \/ kafkaProducerConnect \/ kafkaSend
  \/ kafkaProducerDisconnect \/ kafkaConsumerConnect \/ kafkaSubscribe
  \/ kafkaConsumerDisconnect

(***************************************************************************)
(* opensearch.ts: getOpenSearchConfig, validateOpenSearch, runChecks.      *)
(***************************************************************************)
\* getOpenSearchConfig(): none (null), throw (new URL failed) or a port
getOpenSearchConfig(e, isVpc) ==
  LET url == getConnectionUrl(e, isVpc, "OPENSEARCH_URL", "OPENSEARCH_PRIVATE_URL")
      host == Or(e["OPENSEARCH_HOST"], e["OPENSEARCH_HOSTNAME"])
  IN IF IsSet(url)
     THEN IF ~NewUrl(url).ok
          THEN [kind |-> "throw", port |-> NullPort, url |-> url]
          ELSE [kind |-> "config",
                port |-> IF NewUrl(url).port # NullPort THEN NewUrl(url).port
                         ELSE IntPort(25060),
                url |-> url]
     ELSE IF IsSet(host)
          THEN [kind |-> "config",
                port |-> IF IsSet(e["OPENSEARCH_PORT"]) THEN parsePort(e["OPENSEARCH_PORT"])
                         ELSE IntPort(25060),
                url |-> host]
          ELSE [kind |-> "none", port |-> NullPort, url |-> Unset]

opensearchRunChecks ==
  /\ runner = "opensearch" /\ stage = "call"
  /\ LET config == getOpenSearchConfig(env, vpc)
     IN IF config.kind = "none" THEN Skip
        ELSE /\ target' = config.url
             /\ IF config.kind = "throw" \/ tcpCheckRejects(config.port)
                THEN stage' = "end" /\ ret' = Threw
                ELSE stage' = "os.tcp" /\ ret' = ret
             /\ UNCHANGED <<runner, checks, allChecks, dbTodo, ops, client, wstep>>
             /\ Frame

OsWriteProbe ==
  << [op |-> "os.create", rec |-> "OpenSearch CREATE"],
     [op |-> "os.index", rec |-> "OpenSearch INDEX"],
     [op |-> "os.search", rec |-> "OpenSearch SEARCH"],
     [op |-> "os.delete", rec |-> "OpenSearch DELETE"],
     [op |-> "os.drop", rec |-> ""] >>

osTcp ==
  /\ runner = "opensearch" /\ stage = "os.tcp"
  /\ Await("tcp",
           Goto("os.import", <<Rec("OpenSearch TCP", TRUE)>>, <<Op("tcp", "ok")>>, client),
           Finish(<<Rec("OpenSearch TCP", FALSE)>>, <<Op("tcp", "fail")>>, client))

osImport ==
  /\ runner = "opensearch" /\ stage = "os.import"
  /\ \/ Goto("os.health", <<>>, <<Op("import", "ok")>>, "constructed")
     \/ Finish(<<Rec("OpenSearch Driver", FALSE)>>, <<Op("import", "fail")>>, client)

osHealth ==
  /\ runner = "opensearch" /\ stage = "os.health"
  /\ \E status \in {"green", "yellow", "red"}, unauthorized \in BOOLEAN :
       Await("os.health",
             Goto("os.info", <<Rec("OpenSearch Health", status \in {"green", "yellow"})>>,
                  <<Op("os.health", "ok")>>, "connected"),
             Finish(IF unauthorized THEN <<Rec("OpenSearch Auth", FALSE)>>
                    ELSE <<Rec("OpenSearch Connection", FALSE)>>,
                    <<Op("os.health", "fail")>>, client))

osInfo ==
  /\ runner = "opensearch" /\ stage = "os.info"
  /\ Await("os.info",
           Goto("os.indices", <<Rec("OpenSearch Version", TRUE)>>,
                <<Op("os.info", "ok")>>, client),
           Goto("os.indices", <<>>, <<Op("os.info", "fail")>>, client))

osIndices ==
  /\ runner = "opensearch" /\ stage = "os.indices"
  /\ Await("os.indices",
           Goto("os.predelete", <<Rec("OpenSearch Indices", TRUE)>>,
                <<Op("os.indices", "ok")>>, client),
           Goto("os.predelete", <<Rec("OpenSearch Indices", FALSE)>>,
                <<Op("os.indices", "fail")>>, client))

\* Delete if exists: a failure is ignored
osPredelete ==
  /\ runner = "opensearch" /\ stage = "os.predelete"
  /\ Await("os.predelete",
           GotoW("os.write", 1, <<>>, <<Op("os.predelete", "ok")>>, client),
           GotoW("os.write", 1, <<>>, <<Op("os.predelete", "fail")>>, client))

\* a failed statement: the Operations record, then "Try to clean up anyway"
osWrite ==
  /\ runner = "opensearch" /\ stage = "os.write"
  /\ WriteStep(OsWriteProbe, "os.write", "os.close", "os.cleanup", "OpenSearch Operations")

osCleanup ==
  /\ runner = "opensearch" /\ stage = "os.cleanup"
  /\ Await("os.cleanup",
           Goto("os.close", <<>>, <<Op("os.cleanup", "ok")>>, client),
           Goto("os.close", <<>>, <<Op("os.cleanup", "fail")>>, client))

osClose ==
  /\ runner = "opensearch" /\ stage = "os.close"
  /\ Await("os.close",
           Finish(<<>>, <<Op("os.close", "ok")>>, "closed"),
           Finish(<<Rec("OpenSearch Driver", FALSE)>>, <<Op("os.close", "fail")>>, client))

validateOpenSearch ==
  \/ osTcp \/ osImport \/ osHealth \/ osInfo \/ osIndices \/ osPredelete
  \/ osWrite \/ osCleanup \/ osClose

(***************************************************************************)
(* spaces.ts: getSpacesConfig, validateSpaces, runChecks.                  *)
(***************************************************************************)
spacesAccessKey(e) ==
  Or(e["SPACES_ACCESS_KEY"], Or(e["DO_SPACES_KEY"], e["AWS_ACCESS_KEY_ID"]))
spacesSecretKey(e) ==
  Or(e["SPACES_SECRET_KEY"], Or(e["DO_SPACES_SECRET"], e["AWS_SECRET_ACCESS_KEY"]))
spacesBucket(e) ==
  Or(e["SPACES_BUCKET"], Or(e["DO_SPACES_BUCKET"], e["S3_BUCKET"]))

\* runChecks, and the configuration checks that open validateSpaces
spacesRunChecks ==
  /\ runner = "spaces" /\ stage = "call"
  /\ IF ~IsSet(spacesAccessKey(env)) \/ ~IsSet(spacesSecretKey(env)) THEN Skip
     ELSE IF ~IsSet(spacesBucket(env))
          THEN Finish(<<Rec("Spaces Config", FALSE)>>, <<>>, client)
          ELSE Goto("s3.import", <<>>, <<>>, client)

\* catch (err) of spaces.ts:216-237, up to its cleanup
SpacesOperationsCatch(op) ==
  Goto("s3.cleanup", <<Rec("Spaces Operations", FALSE)>>, <<Op(op, "fail")>>, client)

\* import('@aws-sdk/client-s3') and new S3Client(...)
s3Import ==
  /\ runner = "spaces" /\ stage = "s3.import"
  /\ \/ Goto("s3.headBucket", <<>>, <<Op("import", "ok")>>, "constructed")
     \/ Finish(<<Rec("Spaces Driver", FALSE)>>, <<Op("import", "fail")>>, client)
     \/ Finish(<<Rec("Spaces Error", FALSE)>>, <<Op("import", "ok")>>, client)

s3HeadBucket ==
  /\ runner = "spaces" /\ stage = "s3.headBucket"
  /\ Await("s3.headBucket",
           Goto("s3.put", <<Rec("Spaces Bucket", TRUE)>>, <<Op("s3.headBucket", "ok")>>,
                "connected"),
           Finish(<<Rec("Spaces Bucket", FALSE)>>, <<Op("s3.headBucket", "fail")>>, client))

s3Put ==
  /\ runner = "spaces" /\ stage = "s3.put"
  /\ Await("s3.put",
           Goto("s3.get", <<Rec("Spaces PUT", TRUE)>>, <<Op("s3.put", "ok")>>, client),
           SpacesOperationsCatch("s3.put"))

s3Get ==
  /\ runner = "spaces" /\ stage = "s3.get"
  /\ \E same \in BOOLEAN :
       Await("s3.get",
             Goto("s3.head", <<Rec("Spaces GET", same)>>, <<Op("s3.get", "ok")>>, client),
             SpacesOperationsCatch("s3.get"))

s3Head ==
  /\ runner = "spaces" /\ stage = "s3.head"
  /\ Await("s3.head",
           Goto("s3.delete", <<Rec("Spaces HEAD", TRUE)>>, <<Op("s3.head", "ok")>>, client),
           SpacesOperationsCatch("s3.head"))

s3Delete ==
  /\ runner = "spaces" /\ stage = "s3.delete"
  /\ Await("s3.delete",
           Goto("s3.verify", <<Rec("Spaces DELETE", TRUE)>>, <<Op("s3.delete", "ok")>>,
                client),
           SpacesOperationsCatch("s3.delete"))

\* Verify deletion: NotFound is the good answer, any other error is rethrown
s3Verify ==
  /\ runner = "spaces" /\ stage = "s3.verify"
  /\ \E notFound \in BOOLEAN :
       Await("s3.verify",
             Goto("s3.list", <<>>, <<Op("s3.verify", "ok")>>, client),
             IF notFound
             THEN Goto("s3.list", <<>>, <<Op("s3.verify", "fail")>>, client)
             ELSE SpacesOperationsCatch("s3.verify"))

s3Cleanup ==
  /\ runner = "spaces" /\ stage = "s3.cleanup"
  /\ Await("s3.cleanup",
           Goto("s3.list", <<>>, <<Op("s3.cleanup", "ok")>>, client),
           Goto("s3.list", <<>>, <<Op("s3.cleanup", "fail")>>, client))

\* List objects, then client.destroy()
s3List ==
  /\ runner = "spaces" /\ stage = "s3.list"
  /\ Await("s3.list",
           Finish(<<Rec("Spaces LIST", TRUE)>>, <<Op("s3.list", "ok")>>, "closed"),
           Finish(<<Rec("Spaces LIST", FALSE)>>, <<Op("s3.list", "fail")>>, "closed"))

validateSpaces ==
  \/ s3Import \/ s3HeadBucket \/ s3Put \/ s3Get \/ s3Head \/ s3Delete \/ s3Verify
  \/ s3Cleanup \/ s3List

(***************************************************************************)
(* gradient.ts: getGradientConfig, validateGradient, runChecks.            *)
(***************************************************************************)
DefaultEndpoint == Url("https", NullPort)

gradientAccessKey(e) ==
  Or(e["MODEL_ACCESS_KEY"], Or(e["GRADIENT_ACCESS_KEY"], e["DO_AI_ACCESS_KEY"]))
gradientEndpoint(e) ==
  Or(e["INFERENCE_ENDPOINT"], Or(e["GRADIENT_ENDPOINT"], DefaultEndpoint))

\* runChecks up to the first await of validateGradient: new URL(config.endpoint)
gradientRunChecks ==
  /\ runner = "gradient" /\ stage = "call"
  /\ target' = gradientEndpoint(env)
  /\ IF ~NewUrl(gradientEndpoint(env)).ok
     THEN stage' = "end" /\ ret' = Threw
     ELSE stage' = "gr.dns" /\ ret' = ret
  /\ UNCHANGED <<runner, checks, allChecks, dbTodo, ops, client, wstep>>
  /\ Frame

grDns ==
  /\ runner = "gradient" /\ stage = "gr.dns"
  /\ Await("dns",
           Goto("gr.tcp", <<Rec("Gradient DNS", TRUE)>>, <<Op("dns", "ok")>>, client),
           Finish(<<Rec("Gradient DNS", FALSE)>>, <<Op("dns", "fail")>>, client))

grTcp ==
  /\ runner = "gradient" /\ stage = "gr.tcp"
  /\ Await("tcp",
           Goto("gr.https", <<Rec("Gradient TCP", TRUE)>>, <<Op("tcp", "ok")>>, client),
           Finish(<<Rec("Gradient TCP", FALSE)>>, <<Op("tcp", "fail")>>, client))

\* https.request(endpoint) throws in the promise executor when the
\* endpoint's protocol is not https:
grHttps ==
  /\ runner = "gradient" /\ stage = "gr.https"
  /\ IF NewUrl(target).scheme # "https" THEN Escape(<<>>)
     ELSE Await("https.head",
                IF IsSet(gradientAccessKey(env))
                THEN Goto("gr.import", <<Rec("Gradient HTTPS", TRUE)>>,
                          <<Op("https.head", "ok")>>, client)
                ELSE Finish(<<Rec("Gradient HTTPS", TRUE)>>, <<Op("https.head", "ok")>>,
                            client),
                Finish(<<Rec("Gradient HTTPS", FALSE)>>, <<Op("https.head", "fail")>>,
                       client))

grImport ==
  /\ runner = "gradient" /\ stage = "gr.import"
  /\ \/ Goto("gr.axios", <<>>, <<Op("import", "ok")>>, client)
     \/ Goto("gr.native", <<>>, <<Op("import", "fail")>>, client)

\* axios.get(modelsUrl): 200 with or without models, another 2xx, or an error
grAxios ==
  /\ runner = "gradient" /\ stage = "gr.axios"
  /\ \E status \in {200, 204}, models \in BOOLEAN, unauthorized \in BOOLEAN :
       Await("axios.get",
             Finish(IF status # 200 THEN <<>>
                    ELSE <<Rec("Gradient API", TRUE)>>
                           \o (IF models THEN <<Rec("Gradient Model", TRUE)>> ELSE <<>>),
                    <<Op("axios.get", "ok")>>, client),
             Finish(<<Rec(IF unauthorized THEN "Gradient Auth" ELSE "Gradient API", FALSE)>>,
                    <<Op("axios.get", "fail")>>, client))

\* the native https fallback resolves to one record
grNative ==
  /\ runner = "gradient" /\ stage = "gr.native"
  /\ \E unauthorized \in BOOLEAN :
       Await("https.get",
             Finish(<<Rec("Gradient API", TRUE)>>, <<Op("https.get", "ok")>>, client),
             Finish(<<Rec(IF unauthorized THEN "Gradient Auth" ELSE "Gradient API", FALSE)>>,
                    <<Op("https.get", "fail")>>, client))

validateGradient == grDns \/ grTcp \/ grHttps \/ grImport \/ grAxios \/ grNative

(***************************************************************************)
(* network.ts: runChecks.                                                  *)
(***************************************************************************)
\* the checks that can fail, in order, with the operation each one awaits last
NetworkChecks ==
  << [op |-> "dns", rec |-> "DNS Resolution"],
     [op |-> "https.head", rec |-> "External HTTPS"],
     [op |-> "https.get", rec |-> "DigitalOcean API"],
     [op |-> "tls.connect", rec |-> "DO Container Registry"],
     [op |-> "tls.connect", rec |-> "GitHub Container Registry"] >>

networkRunChecks ==
  /\ runner = "network" /\ stage = "call"
  /\ GotoW("net.check", 1, <<>>, <<>>, client)

\* checkDnsResolution .. checkGhcr: each resolves to [success, message]
networkCheck ==
  /\ runner = "network" /\ stage = "net.check"
  /\ \E r \in {"ok", "fail"} :
       GotoW(IF wstep < Len(NetworkChecks) THEN "net.check" ELSE "net.internal",
             IF wstep < Len(NetworkChecks) THEN wstep + 1 ELSE 0,
             <<Rec(NetworkChecks[wstep].rec, r = "ok")>>,
             <<Op(NetworkChecks[wstep].op, r)>>, client)

\* checkInternalDns and checkVpcConnectivity always report success
networkInternal ==
  /\ runner = "network" /\ stage = "net.internal"
  /\ \E r \in {"ok", "fail"} :
       Finish(<<Rec("Internal DNS", TRUE), Rec("VPC Connectivity", TRUE)>>,
              IF hasVpcInterface(vpc) THEN <<Op("tcp", r)>> ELSE <<>>, client)

(***************************************************************************)
(* env.ts: checkRequiredVars, checkUrlFormat, getAllDoVars, runChecks.     *)
(***************************************************************************)
COMMON_REQUIRED_VARS == <<"DATABASE_URL", "REDIS_URL">>

\* process.env[name] for any name
Getenv(e, name) == IF name \in DOMAIN e THEN e[name] ELSE Unset

\* BINDABLE_PATTERN.test(v) with the pattern's lastIndex at li: the /g flag
\* makes the search start at lastIndex and leaves lastIndex after the match
BindableTest(v, li) ==
  LET hit == v.phe > 0 /\ li <= v.len /\ v.phs >= li
  IN [hit |-> hit, lastIndex |-> IF hit THEN v.phe ELSE 0]

\* value.match(BINDABLE_PATTERN): every match, lastIndex reset to 0
BindableMatch(v) == v.phe > 0

\* checkRequiredVars(required) pushed into checks; out.li is the lastIndex left
RECURSIVE checkRequiredVars(_, _, _)
checkRequiredVars(e, required, li) ==
  IF required = <<>> THEN [recs |-> <<>>, li |-> li]
  ELSE LET name == Head(required)
           value == Getenv(e, name)
           t == BindableTest(value, li)
           li1 == IF IsSet(value) THEN t.lastIndex ELSE li
           rest == checkRequiredVars(e, Tail(required), li1)
       IN [recs |-> <<Rec("Env: " \o name, IsSet(value) /\ ~t.hit)>> \o rest.recs,
           li |-> rest.li]

\* the names getAllDoVars can return, as sorted by localeCompare
DoVarNames ==
  <<"CA_CERT", "DATABASE_PRIVATE_URL", "DATABASE_URL", "DO_AI_ACCESS_KEY",
    "DO_SPACES_BUCKET", "DO_SPACES_ENDPOINT", "DO_SPACES_KEY", "DO_SPACES_REGION",
    "DO_SPACES_SECRET", "GRADIENT_ACCESS_KEY", "GRADIENT_ENDPOINT",
    "INFERENCE_ENDPOINT", "KAFKA_BROKER", "KAFKA_BROKERS", "KAFKA_CA_CERT",
    "KAFKA_HOST", "KAFKA_HOSTNAME", "KAFKA_PASSWORD", "KAFKA_PORT", "KAFKA_USERNAME",
    "MODEL_ACCESS_KEY", "MONGO_PRIVATE_URL", "MONGO_URL", "MONGODB_PRIVATE_URI",
    "MONGODB_PRIVATE_URL", "MONGODB_URI", "MONGODB_URL", "MYSQL_DATABASE_PRIVATE_URL",
    "MYSQL_DATABASE_URL", "MYSQL_PRIVATE_URL", "MYSQL_URL", "OPENSEARCH_HOST",
    "OPENSEARCH_HOSTNAME", "OPENSEARCH_PASSWORD", "OPENSEARCH_PORT",
    "OPENSEARCH_PRIVATE_URL", "OPENSEARCH_URL", "OPENSEARCH_USERNAME",
    "PG_PRIVATE_URL", "PG_URL", "POSTGRES_PRIVATE_URL", "POSTGRES_URL",
    "REDIS_PRIVATE_URL", "REDIS_URL", "SPACES_ACCESS_KEY", "SPACES_BUCKET",
    "SPACES_ENDPOINT", "SPACES_REGION", "SPACES_SECRET_KEY">>

IsSetIn(e) == [n \in DOMAIN e |-> IsSet(e[n])]
getAllDoVars(e) ==
  LET set == IsSetIn(e)
      Keep(n) == set[n]
  IN SelectSeq(DoVarNames, Keep)

\* the loop over doVars: a failing record for each value the pattern hits
RECURSIVE doVarsChecks(_, _, _)
doVarsChecks(e, names, li) ==
  IF names = <<>> THEN <<>>
  ELSE LET t == BindableTest(e[Head(names)], li)
       IN (IF t.hit THEN <<Rec("Env: " \o Head(names), FALSE)>> ELSE <<>>)
            \o doVarsChecks(e, Tail(names), t.lastIndex)

urlVars ==
  <<"DATABASE_URL", "DATABASE_PRIVATE_URL", "MYSQL_URL", "MYSQL_PRIVATE_URL",
    "REDIS_URL", "REDIS_PRIVATE_URL", "MONGODB_URI", "MONGODB_PRIVATE_URI",
    "OPENSEARCH_URL", "OPENSEARCH_PRIVATE_URL", "INFERENCE_ENDPOINT">>

\* checkUrlFormat(varName, url)[0]: no placeholder, and a known pattern or "://"
checkUrlFormat(url) == ~BindableMatch(url) /\ url.kind = "url"

RECURSIVE urlChecks(_, _)
urlChecks(e, names) ==
  IF names = <<>> THEN <<>>
  ELSE (IF IsSet(e[Head(names)])
        THEN <<Rec("URL: " \o Head(names), checkUrlFormat(e[Head(names)]))>>
        ELSE <<>>) \o urlChecks(e, Tail(names))

\* args[requiredIdx + 1].split(',')
SplitComma(arg) ==
  IF arg = "DATABASE_URL,REDIS_URL" THEN <<"DATABASE_URL", "REDIS_URL">> ELSE <<arg>>

\* the required list main passes to env.runChecks (<<>>: undefined)
requiredOf(args) ==
  LET at == {i \in 1..Len(args) : args[i] = "--required"}
      idx == IF at = {} THEN 0 ELSE CHOOSE i \in at : \A j \in at : i <= j
  IN IF idx # 0 /\ idx < Len(args) THEN SplitComma(args[idx + 1]) ELSE <<>>

envChecks(e, required) ==
  LET req == checkRequiredVars(e, IF required = <<>> THEN COMMON_REQUIRED_VARS
                                  ELSE required, 0)
  IN req.recs \o doVarsChecks(e, getAllDoVars(e), req.li) \o urlChecks(e, urlVars)

\* What the env runner shows of the values.  An entry [name, raw] stands for
\* a CheckResult message or console line about variable `name` in which the
\* first `raw` characters of its value are readable.
Min(a, b) == IF a <= b THEN a ELSE b
\* the readable prefix maskSecret(value, show) leaves of a value of length len
maskShows(len, show) ==
  LET out == maskSecret(Repeat("x", len), show)
  IN Cardinality({i \in 1..Len(out) : out[i] # "*"})

\* secretKeywords.some((s) => varName.toUpperCase().includes(s))
isSecret(name) ==
  name \in {"CA_CERT", "KAFKA_CA_CERT", "DO_AI_ACCESS_KEY", "DO_SPACES_KEY",
            "DO_SPACES_SECRET", "GRADIENT_ACCESS_KEY", "KAFKA_PASSWORD",
            "MODEL_ACCESS_KEY", "OPENSEARCH_PASSWORD", "SPACES_ACCESS_KEY",
            "SPACES_SECRET_KEY", "AWS_ACCESS_KEY_ID", "AWS_SECRET_ACCESS_KEY"}

\* the previews of checkRequiredVars: 'Unresolved: ' + value.substring(0, 50)
\* or maskSecret(value, 8)
RECURSIVE requiredShown(_, _, _)
requiredShown(e, required, li) ==
  IF required = <<>> THEN <<>>
  ELSE LET name == Head(required)
           value == Getenv(e, name)
           t == BindableTest(value, li)
           li1 == IF IsSet(value) THEN t.lastIndex ELSE li
       IN (IF ~IsSet(value) THEN <<>>
           ELSE IF t.hit THEN <<[name |-> name, raw |-> Min(50, value.len)]>>
           ELSE <<[name |-> name, raw |-> maskShows(value.len, 8)]>>)
            \o requiredShown(e, Tail(required), li1)

\* the loop over doVars: issueMsg 'Unresolved: ' + value.substring(0, 40), or
\* displayValue (masked for a secret name, else the first 40 characters)
RECURSIVE doVarsShown(_, _, _)
doVarsShown(e, names, li) ==
  IF names = <<>> THEN <<>>
  ELSE LET name == Head(names)
           value == e[name]
           t == BindableTest(value, li)
       IN <<[name |-> name,
             raw |-> IF t.hit THEN Min(40, value.len)
                     ELSE IF isSecret(name) THEN maskShows(value.len, 8)
                     ELSE Min(40, value.len)]>>
            \o doVarsShown(e, Tail(names), t.lastIndex)

envShown(e, required) ==
  LET req == IF required = <<>> THEN COMMON_REQUIRED_VARS ELSE required
  IN requiredShown(e, req, 0)
       \o doVarsShown(e, getAllDoVars(e), checkRequiredVars(e, req, 0).li)

envRunChecks ==
  /\ runner = "env" /\ stage = "call"
  /\ Finish(envChecks(env, IF pc = "single" THEN requiredOf(argv) ELSE <<>>), <<>>, client)

(***************************************************************************)
(* index.ts: main and runAll.                                              *)
(***************************************************************************)
RunnerCommands == {"network", "database", "cache", "kafka", "opensearch",
                   "spaces", "gradient", "env"}
\* runAll's modules, in order: the runner and the name it is reported under
Modules == << <<"network", "Network">>, <<"database", "Database">>,
              <<"cache", "Cache">>, <<"kafka", "Kafka">>,
              <<"opensearch", "OpenSearch">>, <<"spaces", "Spaces">>,
              <<"gradient", "Gradient AI">>, <<"env", "Environment">> >>

\* a call of module.runChecks: fresh locals
CallRunChecks(name) ==
  /\ runner' = name
  /\ stage' = "call"
  /\ checks' = <<>>
  /\ allChecks' = <<>>
  /\ dbTodo' = <<>>
  /\ ops' = <<>>
  /\ client' = "none"
  /\ target' = Unset
  /\ wstep' = 0
  /\ ret' = NoRet

main ==
  /\ pc = "main"
  /\ IF helpOf(argv)
     THEN /\ pc' = "exit" /\ procExit' = <<0>>
          /\ UNCHANGED <<modIdx, exitCode, failedModules, modResults, runVars>>
     ELSE IF commandOf(argv) = "all"
     THEN /\ pc' = "runAll" /\ modIdx' = 0 /\ exitCode' = 0 /\ failedModules' = <<>>
          /\ modResults' = <<>>
          /\ UNCHANGED <<procExit, runVars>>
     ELSE IF commandOf(argv) \in RunnerCommands
     THEN /\ pc' = "single"
          /\ CallRunChecks(commandOf(argv))
          /\ UNCHANGED <<modIdx, exitCode, failedModules, modResults, procExit>>
     ELSE /\ pc' = "exit" /\ procExit' = <<1>>
          /\ UNCHANGED <<modIdx, exitCode, failedModules, modResults, runVars>>
  /\ UNCHANGED <<sideVars, cfgVars>>

\* a single runner ended: main returns its code, or 1 from its catch
mainReturn ==
  /\ pc = "single" /\ stage = "end"
  /\ pc' = "exit"
  /\ procExit' = <<IF ret.kind = "return" THEN ret.code ELSE 1>>
  /\ UNCHANGED <<modIdx, exitCode, failedModules, modResults, runVars, sideVars, cfgVars>>

\* runAll that gives up on the remaining modules once one has failed
runAllCallMut ==
  /\ pc = "runAll" /\ runner = "none" /\ modIdx < Len(Modules)
  /\ modIdx' = IF exitCode = 0 THEN modIdx + 1 ELSE Len(Modules)
  /\ CallRunChecks(Modules[modIdx'][1])
  /\ UNCHANGED <<pc, exitCode, failedModules, modResults, procExit, sideVars, cfgVars>>

\* for (const module of modules): await module.runChecks(verbose)
runAllCall ==
  /\ pc = "runAll" /\ runner = "none" /\ modIdx < Len(Modules)
  /\ modIdx' = modIdx + 1
  /\ CallRunChecks(Modules[modIdx + 1][1])
  /\ UNCHANGED <<pc, exitCode, failedModules, modResults, procExit, sideVars, cfgVars>>

\* runAll whose catch block names the module but leaves exitCode alone
runAllResultMut ==
  /\ pc = "runAll" /\ runner # "none" /\ stage = "end"
  /\ IF ret.kind = "return" /\ ret.code = 0
     THEN UNCHANGED <<exitCode, failedModules>>
     ELSE /\ exitCode' = IF ret.kind = "throw" THEN exitCode ELSE 1
          /\ failedModules' = Append(failedModules, Modules[modIdx][2])
  /\ modResults' = Append(modResults, ret)
  /\ runner' = "none" /\ stage' = "idle" /\ checks' = <<>> /\ allChecks' = <<>>
  /\ dbTodo' = <<>> /\ ops' = <<>> /\ client' = "none" /\ target' = Unset
  /\ wstep' = 0 /\ ret' = NoRet
  /\ UNCHANGED <<pc, modIdx, procExit, sideVars, cfgVars>>

\* the module's result, or the exception caught at index.ts:110
runAllResult ==
  /\ pc = "runAll" /\ runner # "none" /\ stage = "end"
  /\ IF ret.kind = "return" /\ ret.code = 0
     THEN UNCHANGED <<exitCode, failedModules>>
     ELSE /\ exitCode' = 1
          /\ failedModules' = Append(failedModules, Modules[modIdx][2])
  /\ modResults' = Append(modResults, ret)
  /\ runner' = "none" /\ stage' = "idle" /\ checks' = <<>> /\ allChecks' = <<>>
  /\ dbTodo' = <<>> /\ ops' = <<>> /\ client' = "none" /\ target' = Unset
  /\ wstep' = 0 /\ ret' = NoRet
  /\ UNCHANGED <<pc, modIdx, procExit, sideVars, cfgVars>>

runAllReturn ==
  /\ pc = "runAll" /\ runner = "none" /\ modIdx = Len(Modules)
  /\ pc' = "exit"
  /\ procExit' = <<exitCode>>
  /\ UNCHANGED <<modIdx, exitCode, failedModules, modResults, runVars, sideVars, cfgVars>>

runAll == runAllCall \/ runAllResult \/ runAllReturn

(***************************************************************************)
(* SummarySpec: printSummary on every list of at most MaxChecks records.   *)
(***************************************************************************)
SummaryNames == {"A", "B"}
SummaryMessages == {"", "m"}
SummaryRecords ==
  {CheckResult(n, p, m) : n \in SummaryNames, p \in BOOLEAN, m \in SummaryMessages}

NoSummary == [passed |-> -1, failed |-> -1, total |-> -1, printed |-> <<>>,
              code |-> -1, checks |-> <<>>]

CfgIdle == env = EnvOf({}) /\ vpc = FALSE
ProcIdle ==
  /\ argv = <<>>
  /\ pc = "idle" /\ modIdx = 0 /\ exitCode = 0 /\ failedModules = <<>> /\ modResults = <<>>
  /\ procExit = <<>>
  /\ runner = "none" /\ stage = "idle" /\ checks = <<>> /\ allChecks = <<>>
  /\ dbTodo = <<>> /\ ops = <<>> /\ client = "none" /\ target = Unset /\ wstep = 0
  /\ ret = NoRet
MainIdle == CfgIdle /\ ProcIdle

SumIdle == sumIn = <<>> /\ sumIn0 = <<>> /\ sumOut = NoSummary
ResIdle == resKeys = <<"", "">> /\ resOut = <<>>
ConcIdle == ckind = "none" /\ cstore = <<>> /\ cpc = <<>> /\ cres = <<>>
PureIdle == call = [fn |-> "none"] /\ result = <<>>
TcpIdle ==
  /\ tcpIn = <<>> /\ timer = "none" /\ socket = "none"
  /\ handled = <<>> /\ resolves = <<>> /\ settled = <<>>

SummaryInit ==
  /\ MainIdle /\ ResIdle /\ ConcIdle /\ PureIdle /\ TcpIdle
  /\ sumIn \in SeqsUpTo(SummaryRecords, MaxChecks)
  /\ sumIn0 = sumIn
  /\ sumOut = NoSummary

CallPrintSummary ==
  /\ sumOut = NoSummary
  /\ sumOut' = printSummary(sumIn)
  /\ sumIn' = printSummary(sumIn).checks
  /\ UNCHANGED <<sumIn0, resVars, concVars, pureVars, tcpVars, cfgVars, mainVars, runVars>>

SummaryNext == CallPrintSummary

SummarySpec == SummaryInit /\ [][SummaryNext]_vars

(***************************************************************************)
(* ResolveSpec: getConnectionUrl on every pair of names the runners pass,  *)
(* with each of the two variables unset or set, with and without a VPC.    *)
(***************************************************************************)
ResolvePairs ==
  {CacheUrlConfigs[i] : i \in 1..Len(CacheUrlConfigs)}
    \cup UNION {{dbConfigs(DbTypes[t])[i] : i \in 1..Len(dbConfigs(DbTypes[t]))} :
                  t \in 1..Len(DbTypes)}
    \cup {<<"OPENSEARCH_URL", "OPENSEARCH_PRIVATE_URL">>, <<"REDIS_URL", "">>}

ResolveValues == {Unset, Url("redis", IntPort(6379)), Url("rediss", IntPort(25061))}

ResolveInit ==
  /\ SumIdle /\ ConcIdle /\ ProcIdle /\ PureIdle /\ TcpIdle
  /\ resKeys \in ResolvePairs
  /\ resOut = <<>>
  /\ vpc \in BOOLEAN
  /\ \E pub, priv \in ResolveValues :
       env = EnvOf({<<resKeys[1], pub>>} \cup
                   (IF resKeys[2] = "" THEN {} ELSE {<<resKeys[2], priv>>}))

CallGetConnectionUrl ==
  /\ resOut = <<>>
  /\ resOut' = <<getConnectionUrl(env, vpc, resKeys[1], resKeys[2])>>
  /\ UNCHANGED <<resKeys, sumVars, concVars, pureVars, tcpVars, cfgVars, mainVars, runVars>>

ResolveNext == CallGetConnectionUrl

ResolveSpec == ResolveInit /\ [][ResolveNext]_vars

(***************************************************************************)
(* Spec: one invocation of validate-infra.  The process starts with one of *)
(* the environments below and a command line that exercises it.            *)
(***************************************************************************)
Pg == Url("postgresql", IntPort(25060))
Redis == Url("rediss", IntPort(25061))

SingleCommands == {<<"network">>, <<"database">>, <<"cache">>, <<"kafka">>,
                   <<"opensearch">>, <<"spaces">>, <<"gradient">>, <<"env">>}

\* nothing configured: every command line
NoneScenarios ==
  {<<{}, a>> : a \in SingleCommands \cup
     {<<>>, <<"-v">>, <<"-h">>, <<"bogus">>, <<"-v", "cache">>, <<"-x", "database", "pg">>,
      <<"env", "--required", "KAFKA_BROKER">>, <<"cache", "--help">>, <<"cache", "-v">>,
      <<"--verbose">>}}

DatabaseScenarios ==
  {<<e, a>> :
     e \in {{<<"DATABASE_URL", Url("postgresql", NullPort)>>,
             <<"DATABASE_PRIVATE_URL", Url("postgres", IntPort(25060))>>},
            {<<"MYSQL_DATABASE_URL", Url("mysql", IntPort(25060))>>},
            {<<"MONGODB_URI", Url("mongodb+srv", NullPort)>>},
            {<<"MONGO_URL", Url("mongodb", NullPort)>>},
            {<<"DATABASE_URL", Url("https", NullPort)>>},
            {<<"PG_URL", Malformed>>},
            {<<"MONGODB_URL", Url("mysql", IntPort(3306))>>, <<"MONGO_URL", HostPort(IntPort(27017))>>},
            {<<"DATABASE_URL", Url("mysql", IntPort(3306))>>, <<"POSTGRES_URL", Pg>>,
             <<"MONGODB_URI", Url("postgresql", IntPort(5432))>>,
             <<"MONGODB_URL", Url("mongodb", IntPort(27017))>>}},
     a \in {<<"database">>, <<"database", "mongodb">>, <<"database", "pg">>}}

CacheScenarios ==
  {<<e, a>> :
     e \in {{<<"REDIS_URL", Url("redis", NullPort)>>, <<"REDIS_PRIVATE_URL", Redis>>},
            {<<"VALKEY_PRIVATE_URL", Redis>>, <<"CACHE_URL", Malformed>>},
            {<<"REDIS_URL", Placeholder>>},
            {<<"CACHE_URL", Url("redis", IntPort(70000))>>}},
     a \in {<<"cache">>, <<"database">>, <<"env">>}}

KafkaScenarios ==
  {<<e, a>> :
     e \in {{<<"KAFKA_BROKER", HostPort(IntPort(25073))>>, <<"CA_CERT", Word>>},
            {<<"KAFKA_HOSTNAME", Host>>, <<"KAFKA_USERNAME", Word>>},
            {<<"KAFKA_HOST", Host>>, <<"KAFKA_PORT", Word>>},
            {<<"KAFKA_BROKERS", HostPort(NaNPort)>>}},
     a \in {<<"kafka">>, <<"opensearch">>}}

OpenSearchScenarios ==
  {<<e, a>> :
     e \in {{<<"OPENSEARCH_URL", Url("https", IntPort(25060))>>},
            {<<"OPENSEARCH_HOST", Host>>, <<"OPENSEARCH_PORT", Num(9200)>>},
            {<<"OPENSEARCH_HOST", Host>>, <<"OPENSEARCH_PORT", Word>>},
            {<<"OPENSEARCH_PRIVATE_URL", Malformed>>}},
     a \in {<<"opensearch">>, <<"kafka">>}}

SpacesScenarios ==
  {<<e, a>> :
     e \in {{<<"SPACES_ACCESS_KEY", Word>>, <<"SPACES_SECRET_KEY", Word>>,
             <<"SPACES_BUCKET", Word>>},
            {<<"AWS_ACCESS_KEY_ID", Word>>, <<"DO_SPACES_SECRET", Word>>},
            {<<"SPACES_BUCKET", Word>>, <<"SPACES_ACCESS_KEY", Word>>}},
     a \in {<<"spaces">>, <<"cache">>}}

GradientScenarios ==
  {<<e, a>> :
     e \in {{<<"MODEL_ACCESS_KEY", Word>>},
            {<<"GRADIENT_ENDPOINT", Url("https", IntPort(443))>>},
            {<<"INFERENCE_ENDPOINT", Url("http", NullPort)>>},
            {<<"INFERENCE_ENDPOINT", Malformed>>}},
     a \in {<<"gradient">>, <<"spaces">>}}

\* `validate-infra all` with its required variables set, a malformed one, or
\* a broker whose port is not a number
AllScenarios ==
  {<<e, a>> :
     e \in {{<<"DATABASE_URL", Pg>>, <<"REDIS_URL", Redis>>},
            {<<"DATABASE_URL", Pg>>, <<"REDIS_URL", Malformed>>},
            {<<"DATABASE_URL", Pg>>, <<"REDIS_URL", Redis>>,
             <<"KAFKA_BROKERS", HostPort(NaNPort)>>}},
     a \in {<<>>, <<"all">>}}

\* credentials in the environment of `validate-infra env`
EnvScenarios ==
  {<<{<<"SPACES_SECRET_KEY", SecretRef>>}, <<"env">>>>,
   <<{<<"KAFKA_PASSWORD", Word>>, <<"MODEL_ACCESS_KEY", Word>>},
     <<"env", "--required", "KAFKA_PASSWORD">>>>,
   <<{<<"KAFKA_PASSWORD", SecretRef>>}, <<"-v", "env", "--required", "KAFKA_PASSWORD">>>>,
   <<{<<"DATABASE_URL", Pg>>}, <<"env", "--required", "DATABASE_URL">>>>,
   <<{<<"DATABASE_URL", Pg>>}, <<"env", "--required", "-v", "DATABASE_URL">>>>,
   <<{<<"DATABASE_URL", Placeholder>>, <<"REDIS_URL", Placeholder>>}, <<"env">>>>,
   <<{<<"DATABASE_URL", Pg>>, <<"REDIS_URL", SecretRef>>},
     <<"env", "--required", "DATABASE_URL,REDIS_URL">>>>}

Scenarios ==
  EnvScenarios \cup NoneScenarios \cup DatabaseScenarios \cup CacheScenarios \cup KafkaScenarios
    \cup OpenSearchScenarios \cup SpacesScenarios \cup GradientScenarios \cup AllScenarios

Init ==
  /\ SumIdle /\ ResIdle /\ ConcIdle /\ PureIdle /\ TcpIdle
  /\ \E sc \in Scenarios : env = EnvOf(sc[1]) /\ argv = sc[2]
  /\ vpc \in BOOLEAN
  /\ pc = "main" /\ modIdx = 0 /\ exitCode = 0 /\ failedModules = <<>> /\ modResults = <<>>
  /\ procExit = <<>>
  /\ runner = "none" /\ stage = "idle" /\ checks = <<>> /\ allChecks = <<>>
  /\ dbTodo = <<>> /\ ops = <<>> /\ client = "none" /\ target = Unset /\ wstep = 0
  /\ ret = NoRet

Next ==
  \/ main \/ mainReturn \/ runAll
  \/ networkRunChecks \/ networkCheck \/ networkInternal
  \/ databaseRunChecks \/ dbLoop \/ validatePostgresql \/ validateMysql \/ validateMongodb
  \/ cacheRunChecks \/ validateRedis
  \/ kafkaRunChecks \/ validateKafka
  \/ opensearchRunChecks \/ validateOpenSearch
  \/ spacesRunChecks \/ validateSpaces
  \/ gradientRunChecks \/ validateGradient
  \/ envRunChecks

Spec == Init /\ [][Next]_vars

(***************************************************************************)
(* ConcSpec: NumInvocations invocations of the same write probe run        *)
(* concurrently against one healthy service.  An invocation awaits one     *)
(* statement at a time; the service executes the statements one by one.    *)
(***************************************************************************)
Invocations == 1..NumInvocations
ConcKinds == {"redis", "postgresql", "spaces"}

\* const testTable = '_validate_infra_test'
pgTestTable(p) == <<"_validate_infra_test", 0>>
\* const testKey = '_validate_infra_test'
redisTestKey(p) == <<"_validate_infra_test", 0>>
\* const testKey = `_validate_infra_test/${randomUUID()}`: a fresh random
\* UUID for each invocation
spacesTestKey(p) == <<"_validate_infra_test/", p>>

ConcNames ==
  {pgTestTable(p) : p \in Invocations} \cup {redisTestKey(p) : p \in Invocations}
    \cup {spacesTestKey(p) : p \in Invocations}

RedisProbe == <<"redis.set", "redis.get", "redis.del", "redis.verify">>
SpacesProbe == <<"s3.put", "s3.get", "s3.head", "s3.delete", "s3.verify">>

\* what invocation p sees of a resource: its own, another's, or none
Absent == [by |-> 0]
MadeBy(p) == [by |-> p]
\* a resource that was in the service before any invocation started
Existing == [by |-> -1]
\* the names under which such a resource can exist: the fixed names of the
\* probes (a key holding a fresh random UUID names no earlier object)
FixedNames == {pgTestTable(p) : p \in Invocations} \cup {redisTestKey(p) : p \in Invocations}
Seen(made, p) == IF made = MadeBy(p) THEN "ok" ELSE "foreign"

ConcInit ==
  /\ SumIdle /\ ResIdle /\ MainIdle /\ PureIdle /\ TcpIdle
  /\ ckind \in ConcKinds
  /\ cstore \in [ConcNames -> {Absent, Existing}]
  /\ \A n \in ConcNames \ FixedNames : cstore[n] = Absent
  /\ cpc = [p \in Invocations |-> 1]
  /\ cres = [p \in Invocations |-> <<>>]

\* invocation p has awaited a statement with result r and goes on at k
ConcAdvance(p, k, r, store) ==
  /\ cpc' = [cpc EXCEPT ![p] = k]
  /\ cres' = [cres EXCEPT ![p] = Append(@, r)]
  /\ cstore' = store
  /\ UNCHANGED <<ckind, sumVars, resVars, pureVars, tcpVars, cfgVars, mainVars, runVars>>

\* cache.ts:89-114 against the shared server.  SET and DEL cannot fail on a
\* healthy server; GET of a missing key is null, a value mismatch.
concRedis(p) ==
  /\ ckind = "redis" /\ cpc[p] \in 1..Len(RedisProbe)
  /\ LET key == redisTestKey(p)
         op == RedisProbe[cpc[p]]
     IN CASE op = "redis.set" ->
               ConcAdvance(p, cpc[p] + 1, "ok", [cstore EXCEPT ![key] = MadeBy(p)])
          [] op = "redis.get" ->
               ConcAdvance(p, cpc[p] + 1,
                           IF cstore[key] = Absent THEN "mismatch"
                           ELSE Seen(cstore[key], p), cstore)
          [] op = "redis.del" ->
               ConcAdvance(p, cpc[p] + 1, "ok", [cstore EXCEPT ![key] = Absent])
          [] op = "redis.verify" ->
               ConcAdvance(p, cpc[p] + 1,
                           IF cstore[key] = Absent THEN "ok" ELSE "foreign", cstore)

\* database.ts:67-100 against the shared database.  CREATE TABLE fails when
\* the table exists, the later statements fail when it does not; a failure
\* ends the probe (catch at 96-100).
concPostgresql(p) ==
  /\ ckind = "postgresql" /\ cpc[p] \in 1..Len(PgWriteProbe)
  /\ LET table == pgTestTable(p)
         op == PgWriteProbe[cpc[p]].op
         done == Len(PgWriteProbe) + 1
     IN CASE op = "pg.dropIfExists" ->
               ConcAdvance(p, cpc[p] + 1, "ok", [cstore EXCEPT ![table] = Absent])
          [] op = "pg.create" ->
               IF cstore[table] = Absent
               THEN ConcAdvance(p, cpc[p] + 1, "ok", [cstore EXCEPT ![table] = MadeBy(p)])
               ELSE ConcAdvance(p, done, "fail", cstore)
          [] op \in {"pg.insert", "pg.select", "pg.update", "pg.delete"} ->
               IF cstore[table] = Absent
               THEN ConcAdvance(p, done, "fail", cstore)
               ELSE ConcAdvance(p, cpc[p] + 1, Seen(cstore[table], p), cstore)
          [] op = "pg.drop" ->
               IF cstore[table] = Absent
               THEN ConcAdvance(p, done, "fail", cstore)
               ELSE ConcAdvance(p, done, "ok", [cstore EXCEPT ![table] = Absent])

\* spaces.ts:146-237 against the shared bucket.  GET and HEAD of a missing
\* object fail; the catch block deletes the test key before going on.
concSpaces(p) ==
  /\ ckind = "spaces" /\ cpc[p] \in 1..Len(SpacesProbe)
  /\ LET key == spacesTestKey(p)
         op == SpacesProbe[cpc[p]]
         done == Len(SpacesProbe) + 1
     IN CASE op = "s3.put" ->
               ConcAdvance(p, cpc[p] + 1, "ok", [cstore EXCEPT ![key] = MadeBy(p)])
          [] op \in {"s3.get", "s3.head"} ->
               IF cstore[key] = Absent
               THEN ConcAdvance(p, done, "fail", [cstore EXCEPT ![key] = Absent])
               ELSE ConcAdvance(p, cpc[p] + 1, Seen(cstore[key], p), cstore)
          [] op = "s3.delete" ->
               ConcAdvance(p, cpc[p] + 1, "ok", [cstore EXCEPT ![key] = Absent])
          [] op = "s3.verify" ->
               ConcAdvance(p, done, IF cstore[key] = Absent THEN "ok" ELSE "foreign",
                           cstore)

ConcNext == \E p \in Invocations : concRedis(p) \/ concPostgresql(p) \/ concSpaces(p)

ConcSpec == ConcInit /\ [][ConcNext]_vars

(***************************************************************************)
(* scripts/diagnose.sh: the ENVIRONMENT VARIABLES section,                 *)
(*   env | sort | while read line; do key="${line%%=*}"; ... done          *)
(* A line of text is [text, key, kw, ord]: key is "${line%%=*}", the text  *)
(* before the first '=' (the whole line when it has none), kw tells        *)
(* whether grep -qiE '(key|secret|password|token|credential|private)'      *)
(* matches the key, and ord is the line's rank under sort.  The texts hold *)
(* no backslash and no blank, which `read` would alter.                    *)
(***************************************************************************)
Line(text, key, kw, ord) == [text |-> text, key |-> key, kw |-> kw, ord |-> ord]
\* the lines a value can be made of
ValueLines ==
  {Line("k=v", "k", FALSE, 4), Line("part2", "part2", FALSE, 5),
   Line("s3cr3t", "s3cr3t", FALSE, 6), Line("token=abc", "token", TRUE, 7)}
\* the variables of the environment, with what grep says of their name
DiagNames == {Line("API_KEY", "API_KEY", TRUE, 1), Line("Db_Password", "Db_Password", TRUE, 2)}
HomeVar == [name |-> Line("HOME", "HOME", FALSE, 3), value |-> <<Line("/root", "/root", FALSE, 0)>>]

\* `env` prints NAME=value: its first line starts with the name, every
\* further line of the value is a line of the output of its own
envLines(v) ==
  <<Line(v.name.text \o "=" \o v.value[1].text, v.name.key, v.name.kw, v.name.ord)>>
    \o Tail(v.value)
RECURSIVE envOutput(_)
envOutput(vs) == IF vs = <<>> THEN <<>> ELSE envLines(Head(vs)) \o envOutput(Tail(vs))
\* sort
LineBefore(a, b) == a.ord < b.ord
\* the body of the loop: what is echoed for one line
diagnoseLine(line) == IF line.kw THEN line.key \o "=[REDACTED]" ELSE line.text
\* the section's output for the variables vs
diagnoseEnv(vs) ==
  LET sorted == SortSeq(envOutput(vs), LineBefore)
  IN [i \in 1..Len(sorted) |-> diagnoseLine(sorted[i])]

(***************************************************************************)
(* PureSpec: one call of a helper function on each input of a bounded set. *)
(***************************************************************************)
SecretChars == {"a", "b", "*"}
MaskCalls ==
  {[fn |-> "maskSecret", secret |-> t, show |-> n] :
     t \in SeqsUpTo(SecretChars, MaxSecretLen), n \in 0..MaxShow}

\* diagnose.sh with one credential variable, with and without HOME
DiagCalls ==
  {[fn |-> "diagnose", credential |-> [name |-> n, value |-> v], home |-> h] :
     n \in DiagNames, v \in SeqsUpTo(ValueLines, MaxValueLines) \ {<<>>}, h \in BOOLEAN}

\* parseUrl on URLs of every scheme of its table and some others, with and
\* without a port
ParseSchemes == {"postgresql", "postgres", "mysql", "mongodb", "mongodb+srv", "redis",
                 "rediss", "http", "https", "kafka", "constructor"}
ParsePorts == {NullPort, IntPort(0), IntPort(80), IntPort(443), IntPort(5432),
               IntPort(25060)}
ParseCalls == {[fn |-> "parseUrl", url |-> Url(sch, p)] : sch \in ParseSchemes, p \in ParsePorts}

PureCalls == MaskCalls \cup DiagCalls \cup ParseCalls

PureInit ==
  /\ SumIdle /\ ResIdle /\ ConcIdle /\ MainIdle /\ TcpIdle
  /\ call \in PureCalls
  /\ result = <<>>

CallMaskSecret ==
  /\ call.fn = "maskSecret" /\ result = <<>>
  /\ result' = <<maskSecret(call.secret, call.show)>>
  /\ UNCHANGED <<call, sumVars, resVars, concVars, tcpVars, cfgVars, mainVars, runVars>>

CallDiagnose ==
  /\ call.fn = "diagnose" /\ result = <<>>
  /\ result' = <<diagnoseEnv(<<call.credential>> \o (IF call.home THEN <<HomeVar>> ELSE <<>>))>>
  /\ UNCHANGED <<call, sumVars, resVars, concVars, tcpVars, cfgVars, mainVars, runVars>>

CallParseUrl ==
  /\ call.fn = "parseUrl" /\ result = <<>>
  /\ result' = <<parseUrl(call.url)>>
  /\ UNCHANGED <<call, sumVars, resVars, concVars, tcpVars, cfgVars, mainVars, runVars>>

PureNext == CallMaskSecret \/ CallDiagnose \/ CallParseUrl

PureSpec == PureInit /\ [][PureNext]_vars

(***************************************************************************)
(* TcpSpec: utils.ts tcpCheck, one call.  The executor of the promise      *)
(* creates the socket, arms the timer, registers the two handlers and      *)
(* calls socket.connect; then the timer and the socket emit their events.  *)
(* The runtime emits 'connect' and 'error' only while the socket is        *)
(* connecting (net.Socket drops both once destroy() was called) and runs   *)
(* the timer's callback only while the timer is armed; resolve() settles   *)
(* the promise the first time it is called and is a no-op afterwards.      *)
(***************************************************************************)
TcpHosts == {"db.example", "10.0.0.5"}
TcpPorts == {IntPort(80), IntPort(6379), IntPort(25060), IntPort(70000), NaNPort}
\* the default timeout, and the one checkInternalConnectivity passes
TcpTimeouts == {5000, 2000}
\* what the network does to the attempt: the connection is established,
\* the attempt fails with an error code, or nothing ever comes back
TcpErrorCodes == {"ENOTFOUND", "ECONNREFUSED", "EHOSTUNREACH"}
TcpNet == {"connect", "silent"} \cup TcpErrorCodes

TcpCalls == [host : TcpHosts, port : TcpPorts, ms : TcpTimeouts, net : TcpNet]

\* the tuples tcpCheck resolves with: [success, message]
TcpResult(ok, tmpl, host, port, ms, err) ==
  [ok |-> ok, tmpl |-> tmpl, host |-> host, port |-> port, ms |-> ms, err |-> err]
TcpTimedOut(c) ==
  TcpResult(FALSE, "TCP connection to ${host}:${port} timed out after ${timeout}ms",
            c.host, c.port.n, c.ms, "")
TcpSuccessful(c) ==
  TcpResult(TRUE, "TCP connection to ${host}:${port} successful", c.host, c.port.n, 0, "")
TcpErrored(c, code) ==
  CASE code = "ENOTFOUND" ->
         TcpResult(FALSE, "DNS resolution failed for ${host}: ${err.message}",
                   c.host, 0, 0, code)
    [] code = "ECONNREFUSED" ->
         TcpResult(FALSE, "TCP connection to ${host}:${port} refused", c.host, c.port.n, 0, "")
    [] OTHER ->
         TcpResult(FALSE, "TCP connection error: ${err.message}", "", 0, 0, code)
\* the rejection of the promise when its executor throws
TcpRejected == [ok |-> FALSE, tmpl |-> "rejected", host |-> "", port |-> 0, ms |-> 0,
                err |-> "ERR_SOCKET_BAD_PORT"]

\* resolve(v)
Resolve(v) ==
  /\ resolves' = Append(resolves, v)
  /\ settled' = IF settled = <<>> THEN <<v>> ELSE settled

TcpFrame == UNCHANGED <<sumVars, resVars, concVars, pureVars, cfgVars, mainVars, runVars>>

TcpInit ==
  /\ SumIdle /\ ResIdle /\ ConcIdle /\ MainIdle /\ PureIdle
  /\ tcpIn \in TcpCalls
  /\ timer = "none" /\ socket = "none"
  /\ handled = <<>> /\ resolves = <<>> /\ settled = <<>>

\* the executor: new net.Socket(), setTimeout, socket.on x 2, socket.connect.
\* socket.connect throws on a port that is no integer of 0..65535: the
\* promise is rejected, the timer stays armed, the socket is never connecting
tcpCheck ==
  /\ socket = "none"
  /\ timer' = "armed"
  /\ IF tcpCheckRejects(tcpIn.port)
     THEN socket' = "created" /\ settled' = <<TcpRejected>>
     ELSE socket' = "connecting" /\ settled' = settled
  /\ UNCHANGED <<tcpIn, handled, resolves>>
  /\ TcpFrame

\* the callback of setTimeout
tcpOnTimeout ==
  /\ timer = "armed"
  /\ timer' = "fired"
  /\ socket' = "destroyed"
  /\ Resolve(TcpTimedOut(tcpIn))
  /\ handled' = Append(handled, "timeout")
  /\ UNCHANGED tcpIn
  /\ TcpFrame

\* socket.on('connect') without its clearTimeout(timer)
tcpOnConnectMut ==
  /\ socket = "connecting" /\ tcpIn.net = "connect"
  /\ timer' = timer
  /\ socket' = "destroyed"
  /\ Resolve(TcpSuccessful(tcpIn))
  /\ handled' = Append(handled, "connect")
  /\ UNCHANGED tcpIn
  /\ TcpFrame

\* socket.on('connect')
tcpOnConnect ==
  /\ socket = "connecting" /\ tcpIn.net = "connect"
  /\ timer' = "cleared"
  /\ socket' = "destroyed"
  /\ Resolve(TcpSuccessful(tcpIn))
  /\ handled' = Append(handled, "connect")
  /\ UNCHANGED tcpIn
  /\ TcpFrame

\* socket.on('error')
tcpOnError ==
  /\ socket = "connecting" /\ tcpIn.net \in TcpErrorCodes
  /\ timer' = "cleared"
  /\ socket' = "destroyed"
  /\ Resolve(TcpErrored(tcpIn, tcpIn.net))
  /\ handled' = Append(handled, "error")
  /\ UNCHANGED tcpIn
  /\ TcpFrame

TcpNext == tcpCheck \/ tcpOnTimeout \/ tcpOnConnect \/ tcpOnError

TcpSpec == TcpInit /\ [][TcpNext]_vars

(***************************************************************************)
(*                               Properties                                *)
(***************************************************************************)
\* the indexes of the failing records of cs, and the k-th of them
FailingIdx(cs) == {i \in 1..Len(cs) : ~cs[i].passed}
NthFailing(cs, k) ==
  CHOOSE i \in FailingIdx(cs) : Cardinality({j \in FailingIdx(cs) : j <= i}) = k
AllPassed(cs) == \A i \in 1..Len(cs) : cs[i].passed

\* C1: printSummary returns 0 exactly when every record of its input has
\* passed (so 0 for the empty list) and 1 otherwise; the counts it reports
\* sum to the total; the list it prints is the failing records in input
\* order; the input array is left as it was.
C1_PrintSummaryContract ==
  sumOut # NoSummary =>
    /\ sumOut.code = (IF AllPassed(sumIn0) THEN 0 ELSE 1)
    /\ sumOut.total = Len(sumIn0)
    /\ sumOut.passed + sumOut.failed = sumOut.total
    /\ sumOut.failed = Cardinality(FailingIdx(sumIn0))
    /\ Len(sumOut.printed) = Cardinality(FailingIdx(sumIn0))
    /\ \A k \in 1..Len(sumOut.printed) : sumOut.printed[k] = sumIn0[NthFailing(sumIn0, k)]
    /\ sumIn = sumIn0

\* a call on a list with a passing record between two failing ones
C1_Witness ==
  /\ sumOut # NoSummary
  /\ Len(sumIn0) = 3
  /\ ~sumIn0[1].passed /\ sumIn0[2].passed /\ ~sumIn0[3].passed
  /\ sumIn0[1] # sumIn0[3]
  /\ sumOut.code = 1 /\ sumOut.printed = <<sumIn0[1], sumIn0[3]>>

\* `validate-infra all` has run to its exit
AllExited == pc = "exit" /\ ~helpOf(argv) /\ commandOf(argv) = "all"
\* the modules of a finished runAll that returned non-zero or threw
BadModules == {i \in 1..Len(modResults) : modResults[i] # Returned(0)}
NthBad(k) == CHOOSE i \in BadModules : Cardinality({j \in BadModules : j <= i}) = k

\* C2: `validate-infra all` exits 1 exactly when a module returned non-zero
\* or threw, and 0 otherwise; its failed-modules list is non-empty exactly
\* when it exits 1 and holds exactly those modules, in execution order.
C2_RunAllExitCode ==
  AllExited =>
    /\ Len(modResults) = Len(Modules)
    /\ procExit = <<IF BadModules = {} THEN 0 ELSE 1>>
    /\ (failedModules # <<>>) <=> (procExit = <<1>>)
    /\ Len(failedModules) = Cardinality(BadModules)
    /\ \A k \in 1..Len(failedModules) : failedModules[k] = Modules[NthBad(k)][2]

\* a run in which one module threw, another returned 1 and a later one 0
C2_Witness ==
  /\ AllExited /\ procExit = <<1>>
  /\ modResults[3] = Threw
  /\ modResults[8] = Returned(1)
  /\ modResults[4] = Returned(0)
  /\ failedModules = <<"Cache", "Environment">>

\* the variables each runner for an external target is configured by
RunnerNames(r) ==
  CASE r = "database" -> DbNames
    [] r = "cache" -> CacheNames
    [] r = "kafka" -> KafkaNames
    [] r = "opensearch" -> OpenSearchNames
    [] r = "spaces" -> SpacesNames
    [] r = "gradient" -> GradientNames
    [] OTHER -> {}
Unconfigured(r) == \A n \in RunnerNames(r) : ~IsSet(env[n])
\* the runner has no record, has awaited nothing, and returns 0
SkippedSoFar ==
  /\ checks = <<>> /\ allChecks = <<>> /\ ops = <<>>
  /\ stage # "hung" /\ ret.kind # "throw"
  /\ stage = "end" => ret = Returned(0)

AboutUnset(rec) == \E n \in Names : ~IsSet(env[n]) /\ rec.name = "Env: " \o n
EnvRecords == envChecks(env, <<>>)

\* C4: in a `validate-infra all` run an unset connection variable does not
\* affect the exit code: when every module before the environment module
\* returned 0 and every failing record of the environment module is about a
\* variable that is unset, the process exits 0.
C4_UnsetDoesNotFail ==
  (/\ AllExited
   /\ \A i \in 1..(Len(modResults) - 1) : modResults[i] = Returned(0)
   /\ \A i \in 1..Len(EnvRecords) : ~EnvRecords[i].passed => AboutUnset(EnvRecords[i]))
    => procExit = <<0>>

\* the runners with a TCP_PROBE stage and the records of that stage
TcpRunners == {"database", "cache", "kafka", "opensearch", "gradient"}
TcpRecords == {"PostgreSQL TCP", "MySQL TCP", "MongoDB TCP", "Redis TCP", "Kafka TCP",
               "OpenSearch TCP", "Gradient TCP"}
\* the validator's last awaited operation is a failed tcpCheck
TcpFailed ==
  runner \in TcpRunners /\ ops # <<>> /\ ops[Len(ops)] = Op("tcp", "fail")

\* C5: when the TCP probe fails, the suite the validator returns has exactly
\* one failing record, the TCP record, which is its last; nothing of a later
\* stage is recorded, no driver client is constructed, and the runner
\* returns 1.
C5_TcpFailureIsTerminal ==
  /\ TcpFailed =>
       /\ checks # <<>>
       /\ checks[Len(checks)].name \in TcpRecords
       /\ FailingIdx(checks) = {Len(checks)}
       /\ \A i \in 1..(Len(checks) - 1) : checks[i].name = "Gradient DNS"
       /\ client = "none"
       /\ stage \in {"end", "db.loop"}
       /\ stage = "end" => ret = Returned(1)
  /\ (runner \in TcpRunners /\ stage = "end" /\ ret.kind = "return"
        /\ \E i \in 1..Len(allChecks) :
             allChecks[i].name \in TcpRecords /\ ~allChecks[i].passed)
       => ret.code = 1

\* validate-infra database: PostgreSQL unreachable
C5_Witness ==
  /\ runner = "database" /\ stage = "end" /\ TcpFailed
  /\ allChecks = <<Rec("PostgreSQL TCP", FALSE)>>
  /\ ret = Returned(1)

\* C6: getConnectionUrl(pub, priv) yields nothing when neither variable is
\* set, the value of pub when no VPC is detected (even if priv is set), the
\* value of priv when a VPC is detected and priv is set, and the value of
\* pub when a VPC is detected and priv is unset.
C6_Resolver ==
  resOut # <<>> =>
    LET pub == env[resKeys[1]]
        priv == IF resKeys[2] = "" THEN Unset ELSE env[resKeys[2]]
    IN /\ (~IsSet(pub) /\ ~IsSet(priv)) => ~IsSet(resOut[1])
       /\ ~vpc => resOut[1] = pub
       /\ (vpc /\ IsSet(priv)) => resOut[1] = priv
       /\ (vpc /\ ~IsSet(priv)) => resOut[1] = pub

\* in a VPC, with both variables set to different values, the private one
C6_Witness ==
  /\ resOut # <<>> /\ vpc /\ resKeys[2] # ""
  /\ IsSet(env[resKeys[1]]) /\ IsSet(env[resKeys[2]])
  /\ env[resKeys[1]] # env[resKeys[2]]
  /\ resOut[1] = env[resKeys[2]]

\* C7: no exception escapes a runner, whatever the environment holds: every
\* runChecks call returns normally.
C7_NoExceptionEscapes == ret.kind # "throw"

\* the statements of the write probes: the one that creates the throwaway
\* resource, and the ones that remove it
CreateOps == {"pg.create", "mysql.create", "mongo.insertOne", "redis.set", "os.create",
              "s3.put"}
RemovalOps == {"pg.drop", "mysql.drop", "mongo.dropCollection", "redis.del", "os.drop",
               "os.cleanup", "s3.delete", "s3.cleanup"}
ProbeOps ==
  {PgWriteProbe[i].op : i \in 2..Len(PgWriteProbe)}
    \cup {MysqlWriteProbe[i].op : i \in 2..Len(MysqlWriteProbe)}
    \cup {MongoWriteProbe[i].op : i \in 1..Len(MongoWriteProbe)}
    \cup {OsWriteProbe[i].op : i \in 1..Len(OsWriteProbe)}
    \cup {"redis.set", "redis.get", "redis.del", "redis.verify"}
    \cup {"s3.put", "s3.get", "s3.head", "s3.delete", "s3.verify"}

\* C8: when a statement of a write probe fails after the throwaway resource
\* was created, a removal of the resource has been attempted by the time
\* the validator returns.
C8_CleanupAttempted ==
  stage \in {"end", "db.loop"} =>
    \A j \in 1..Len(ops) :
      (/\ ops[j].op \in CreateOps /\ ops[j].res = "ok"
       /\ \E i \in (j + 1)..Len(ops) : ops[i].op \in ProbeOps /\ ops[i].res = "fail")
        => \E k \in (j + 1)..Len(ops) : ops[k].op \in RemovalOps

\* C9: no runner is left waiting for ever on an operation it awaits: every
\* awaited operation settles.
C9_NoRunnerHangs == stage # "hung"

\* C10: concurrent invocations of a write probe do not interfere: every
\* statement of every invocation succeeds on the invocation's own resource.
C10_NoInterference ==
  \A p \in DOMAIN cres : \A i \in 1..Len(cres[p]) : cres[p][i] = "ok"

\* the port the runner's validator hands to tcpCheck for its target
tcpPort ==
  CASE runner \in {"database", "cache"} -> parseUrl(target).port
    [] runner = "kafka" -> kafkaPort(target)
    [] runner = "opensearch" -> getOpenSearchConfig(env, vpc).port
    [] runner = "gradient" ->
         IF NewUrl(target).port # NullPort THEN NewUrl(target).port ELSE IntPort(443)
    [] OTHER -> NullPort
\* the runner's validator has read its target and reached its tcpCheck call
ReachedTcpCheck ==
  /\ runner \in TcpRunners /\ IsSet(target)
  /\ runner \in {"database", "cache", "gradient"} => NewUrl(target).ok
  /\ runner = "opensearch" => getOpenSearchConfig(env, vpc).kind = "config"

\* C11: whenever a runner calls the TCP probe, the port it passes is a
\* populated integer, never null or NaN, whatever the selected variable
\* holds.
C11_PortPopulated == ReachedTcpCheck => tcpPort.t = "int"

\* the order the modules are to run in
ModuleOrder == <<"network", "database", "cache", "kafka", "opensearch", "spaces",
                 "gradient", "env">>
\* one step of runAll, seen from outside: which module is running
RunAllStep ==
  pc = "runAll" =>
    \* a module starts only when every module before it has finished, in order
    /\ (runner = "none" /\ runner' # "none") =>
         /\ Len(modResults) < Len(ModuleOrder)
         /\ runner' = ModuleOrder[Len(modResults) + 1]
         /\ modIdx' = Len(modResults) + 1
    \* while a module runs no other module starts
    /\ runner # "none" => runner' \in {runner, "none"}
    \* a module that finishes is recorded once, whatever its result
    /\ (runner # "none" /\ runner' = "none") =>
         /\ Len(modResults') = modIdx /\ modIdx' = modIdx
         /\ \A i \in 1..Len(modResults) : modResults'[i] = modResults[i]
    /\ runner' = runner => modResults' = modResults
    \* runAll returns only after the last module
    /\ pc' = "exit" => (runner = "none" /\ Len(modResults) = Len(ModuleOrder))

\* C12: in `all` mode the modules run one at a time in the order Network,
\* Database, Cache, Kafka, OpenSearch, Spaces, Gradient AI, Environment: a
\* module starts only after the previous one has finished, each runs exactly
\* once, and a failing result or an exception in one does not keep the later
\* ones from running.
C12_Sequential == [][RunAllStep]_vars

\* the Kafka module is running after Database returned 1 and Cache threw
C12_Witness ==
  /\ pc = "runAll" /\ runner = "kafka" /\ stage # "call"
  /\ modResults = <<Returned(0), Returned(1), Threw>>

\* the command line as a user reads it: the options, and the subcommand,
\* which is the first argument that is not an option ("all" when none is)
Options == {"-v", "--verbose", "-h", "--help", "--required", "-x"}
Given(a) == \E i \in 1..Len(argv) : argv[i] = a
HelpAsked == Given("-h") \/ Given("--help")
PlainIdx == {i \in 1..Len(argv) : argv[i] \notin Options}
Subcommand ==
  IF PlainIdx = {} THEN "all"
  ELSE argv[CHOOSE i \in PlainIdx : \A j \in PlainIdx : i <= j]
Subcommands == {"network", "database", "cache", "kafka", "opensearch", "spaces",
                "gradient", "env"}
NoRunnerRan == runner = "none" /\ modResults = <<>>

\* C13: for each of the eight subcommands the dispatcher runs that runner
\* alone and exits with its code, or with 1 when it throws; with no
\* subcommand it runs `all`; an unknown subcommand runs no runner and exits
\* 1; -h/--help runs no runner and exits 0 whatever else is given;
\* -v/--verbose is an option wherever it stands and never the subcommand.
C13_Dispatch ==
  pc # "main" =>
    CASE HelpAsked -> pc = "exit" /\ procExit = <<0>> /\ NoRunnerRan
      [] ~HelpAsked /\ Subcommand \in Subcommands ->
           /\ pc \in {"single", "exit"}
           /\ runner = Subcommand /\ modResults = <<>>
           /\ pc = "exit" =>
                /\ stage = "end"
                /\ procExit = <<IF ret.kind = "return" THEN ret.code ELSE 1>>
      [] ~HelpAsked /\ Subcommand = "all" ->
           /\ pc \in {"runAll", "exit"}
           /\ pc = "exit" => (Len(modResults) = Len(ModuleOrder) /\ procExit = <<exitCode>>)
      [] OTHER -> pc = "exit" /\ procExit = <<1>> /\ NoRunnerRan

\* help asked after a subcommand: nothing ran, exit 0
C13_Witness ==
  /\ pc = "exit" /\ argv = <<"cache", "--help">>
  /\ procExit = <<0>> /\ NoRunnerRan

\* a maskSecret call has returned
Masked == call.fn = "maskSecret" /\ result # <<>>

\* C14: maskSecret(s, n) is '<empty>' for the empty string, |s| asterisks
\* when 1 <= |s| <= n, and otherwise the first n characters of s followed by
\* |s| - n asterisks; so for a non-empty s the output is as long as s and
\* shows no character of s beyond the first n.
C14_MaskSecret ==
  Masked =>
    LET s == call.secret
        n == call.show
        out == result[1]
    IN /\ s = <<>> => out = <<"<", "e", "m", "p", "t", "y", ">">>
       /\ (1 <= Len(s) /\ Len(s) <= n) =>
            (Len(out) = Len(s) /\ \A i \in 1..Len(out) : out[i] = "*")
       /\ Len(s) > n =>
            /\ Len(out) = Len(s)
            /\ \A i \in 1..n : out[i] = s[i]
            /\ \A i \in (n + 1)..Len(s) : out[i] = "*"

\* "aba" masked with n = 2 is "ab*"
C14_Witness ==
  /\ Masked
  /\ call.secret = <<"a", "b", "a">> /\ call.show = 2
  /\ result[1] = <<"a", "b", "*">>

\* the variables of the model whose name contains key, secret, password,
\* token or credential
CredentialNames ==
  {"DO_AI_ACCESS_KEY", "DO_SPACES_KEY", "DO_SPACES_SECRET", "GRADIENT_ACCESS_KEY",
   "KAFKA_PASSWORD", "MODEL_ACCESS_KEY", "OPENSEARCH_PASSWORD", "SPACES_ACCESS_KEY",
   "SPACES_SECRET_KEY", "AWS_ACCESS_KEY_ID", "AWS_SECRET_ACCESS_KEY"}
\* the prefix that masking may leave readable
MaskedPrefix == 8
\* what the env subcommand has shown when it returns
EnvShownAtEnd == envShown(env, requiredOf(argv))

\* C15: the env subcommand never shows more than the short masked prefix of
\* the value of a variable whose name contains a credential keyword, in any
\* CheckRecord message or console line, whatever the value is.
C15_EnvMasksCredentials ==
  (pc = "single" /\ runner = "env" /\ stage = "end") =>
    \A i \in 1..Len(EnvShownAtEnd) :
      EnvShownAtEnd[i].name \in CredentialNames => EnvShownAtEnd[i].raw <= MaskedPrefix

\* diagnose.sh has printed its ENVIRONMENT VARIABLES section
Diagnosed == call.fn = "diagnose" /\ result # <<>>
\* the lines of text the value of the credential variable consists of
SecretTexts == {call.credential.value[i].text : i \in 1..Len(call.credential.value)}

\* C16: diagnose.sh prints NAME=[REDACTED] for a variable whose name
\* contains key, secret, password, token or credential, and no line of its
\* output shows any part of the variable's value, whatever the value holds.
C16_DiagnoseRedacts ==
  Diagnosed =>
    /\ \E i \in 1..Len(result[1]) : result[1][i] = call.credential.name.text \o "=[REDACTED]"
    /\ \A i \in 1..Len(result[1]) :
         /\ result[1][i] \notin SecretTexts
         /\ \A t \in SecretTexts : result[1][i] # call.credential.name.text \o "=" \o t

\* the command line of the same run without -v/--verbose
IsNotVerbose(a) == a \notin {"-v", "--verbose"}
WithoutVerbose == SelectSeq(argv, IsNotVerbose)
\* the records the env runner produces in that run
EnvRecordsWithoutVerbose == envChecks(env, requiredOf(WithoutVerbose))

\* C17: the verbose flag changes console detail only: the env subcommand
\* run with -v ends with the same CheckRecords and the same exit code as the
\* same command line run without it.
C17_VerboseChangesNoRecord ==
  (pc = "exit" /\ runner = "env" /\ stage = "end" /\ ~HelpAsked) =>
    /\ checks = EnvRecordsWithoutVerbose
    /\ procExit = <<printSummary(EnvRecordsWithoutVerbose).code>>

\* a parseUrl call has returned
Parsed == call.fn = "parseUrl" /\ result # <<>>
\* the documented default ports
TablePort(scheme) ==
  CASE scheme \in {"postgresql", "postgres"} -> IntPort(5432)
    [] scheme = "mysql" -> IntPort(3306)
    [] scheme \in {"mongodb", "mongodb+srv"} -> IntPort(27017)
    [] scheme \in {"redis", "rediss"} -> IntPort(6379)
    [] OTHER -> NullPort

\* C18: parseUrl returns the explicit port when the URL has one; without a
\* port it returns the default of the scheme when the scheme is in the
\* table, and leaves the port unset (null) for any other scheme.
C18_ParseUrlPort ==
  Parsed =>
    /\ call.url.port # NullPort => result[1].port = call.url.port
    /\ call.url.port = NullPort => result[1].port = TablePort(call.url.scheme)

\* the operations of the protocol handshake: the driver's connect, the ping,
\* the cluster-health call; and the records a failed handshake leaves
HandshakeOps == {"pg.connect", "mysql.connect", "mongo.connect", "mongo.ping",
                 "redis.connect", "redis.ping", "kafka.admin.connect", "os.health"}
HandshakeFailureRecords ==
  {"PostgreSQL Connection", "MySQL Connection", "MongoDB Connection", "Redis Connection",
   "Redis Auth", "Kafka Connection", "OpenSearch Connection", "OpenSearch Auth"}

\* C19: when the handshake fails the validator is terminal: the failure is
\* recorded, nothing is awaited after the failed operation, and the suite
\* holds no record of a later stage (only the passed TCP record before the
\* failure records).
C19_HandshakeFailureIsTerminal ==
  \A i \in 1..Len(ops) :
    (ops[i].op \in HandshakeOps /\ ops[i].res = "fail") =>
      /\ i = Len(ops)
      /\ stage \in {"end", "db.loop"}
      /\ checks # <<>> /\ ~checks[Len(checks)].passed
      /\ \A k \in 1..Len(checks) :
           IF checks[k].passed THEN checks[k].name \in TcpRecords
           ELSE checks[k].name \in HandshakeFailureRecords

\* Redis rejects the PING with NOAUTH
C19_Witness ==
  /\ runner = "cache" /\ stage = "end" /\ ret = Returned(1)
  /\ ops # <<>> /\ ops[Len(ops)] = Op("redis.ping", "fail")
  /\ checks = <<Rec("Redis TCP", TRUE), Rec("Redis Connection", FALSE),
                Rec("Redis Auth", FALSE)>>

\* the read probes that precede a write probe, and the first statement of
\* each write probe
ReadProbeOps == {"pg.version", "mysql.version", "kafka.listTopics", "os.indices"}
WriteProbeStart == {"pg.dropIfExists", "mysql.dropIfExists", "kafka.producer.connect",
                    "os.predelete"}

\* C20: a failing read probe is never terminal: when the version query, the
\* topic listing or the index listing fails after a successful handshake,
\* the failure is recorded and the validator still runs its write probe
\* before it returns.
C20_ReadFailureNotTerminal ==
  stage \in {"end", "db.loop"} =>
    \A i \in 1..Len(ops) :
      (ops[i].op \in ReadProbeOps /\ ops[i].res = "fail") =>
        /\ \E k \in 1..Len(checks) : ~checks[k].passed
        /\ \E j \in (i + 1)..Len(ops) : ops[j].op \in WriteProbeStart

\* the statements that only remove the throwaway resource once the probes
\* are over (the "Cleanup" lines of the validators)
CleanupOps == {"pg.drop", "mysql.drop", "mongo.dropCollection", "os.drop", "os.cleanup",
               "s3.cleanup"}

CleanupFails ==
  /\ Len(ops') = Len(ops) + 1
  /\ ops'[Len(ops')].op \in CleanupOps
  /\ ops'[Len(ops')].res = "fail"

\* C21: a failure of the cleanup step never adds a failing record to the
\* suite (and so never changes the exit code): the step on which a cleanup
\* statement rejects leaves the validator's checks as they were.
C21_CleanupFailureNotEscalated == [][CleanupFails => checks' = checks]_vars

\* the event of a tcpCheck call whose handler ran first
FirstEvent == handled[1]
\* the three failure messages the claim tells apart
DnsMessage == "DNS resolution failed for ${host}: ${err.message}"
RefusedMessage == "TCP connection to ${host}:${port} refused"
TimeoutMessage == "TCP connection to ${host}:${port} timed out after ${timeout}ms"

\* C22: tcpCheck settles exactly once, with the outcome of whichever of the
\* connect, error and timeout events occurs first: at most one handler
\* runs and resolve is called at most once; once neither the timer nor the
\* socket can emit an event the promise is settled; the result is success
\* only for connect; a DNS failure, a refusal and a timeout give three
\* different failure messages; the socket is destroyed on every outcome
\* and the timer is cancelled on connect and on error.
C22_TcpCheckSettlesOnce ==
  (tcpIn # <<>> /\ ~tcpCheckRejects(tcpIn.port)) =>
    /\ Len(handled) <= 1 /\ Len(resolves) <= 1
    /\ (handled = <<>>) <=> (settled = <<>>)
    /\ (socket = "destroyed" \/ timer \in {"cleared", "fired"}) => settled # <<>>
    /\ handled # <<>> =>
         /\ settled = resolves
         /\ settled[1].ok <=> FirstEvent = "connect"
         /\ FirstEvent = "connect" => tcpIn.net = "connect"
         /\ FirstEvent = "timeout" => settled[1].tmpl = TimeoutMessage
         /\ (FirstEvent = "error" /\ tcpIn.net = "ENOTFOUND") => settled[1].tmpl = DnsMessage
         /\ (FirstEvent = "error" /\ tcpIn.net = "ECONNREFUSED") =>
              settled[1].tmpl = RefusedMessage
         /\ Cardinality({DnsMessage, RefusedMessage, TimeoutMessage}) = 3
         /\ socket = "destroyed"
         /\ FirstEvent \in {"connect", "error"} => timer = "cleared"

\* the timer won the race against a connection that would have succeeded
C22_Witness ==
  /\ tcpIn # <<>> /\ ~tcpCheckRejects(tcpIn.port) /\ tcpIn.net = "connect"
  /\ handled = <<"timeout">> /\ socket = "destroyed"
  /\ settled # <<>> /\ ~settled[1].ok

\* the running validator has constructed its driver client
ClientConstructed == runner # "none" /\ client # "none"
TcpProbed == \E i \in 1..Len(ops) : ops[i].op = "tcp"

\* C23: a runner skips the TCP probe only when its target has the
\* SRV-discovery scheme mongodb+srv: in every other case the driver client
\* is constructed only after the TCP probe was performed.
C23_TcpProbeBeforeClient ==
  ClientConstructed =>
    \/ TcpProbed
    \/ runner = "database" /\ target.scheme = "mongodb+srv"

\* the records that name a client library as not installed
DriverRecords == {"PostgreSQL Driver", "MySQL Driver", "MongoDB Driver", "Redis Driver",
                  "Kafka Driver", "OpenSearch Driver", "Spaces Driver", "Gradient Driver"}
ImportFailed == \E i \in 1..Len(ops) : ops[i] = Op("import", "fail")
DriverReported == \E k \in 1..Len(checks) : checks[k].name \in DriverRecords /\ ~checks[k].passed

\* C24: a runner holds a failing 'Driver' record if and only if loading
\* the client library failed: no other error, raised while the client is
\* configured or used, is reported as a missing driver.
C24_DriverRecordIffImportFailed ==
  runner # "none" => (DriverReported <=> ImportFailed)

\* the env runner has returned; the variables it was to require, and whether
\* a value holds a ${...} placeholder
EnvReturned == runner = "env" /\ stage = "end"
RequiredHere ==
  IF Subcommand = "env" /\ requiredOf(argv) # <<>> THEN requiredOf(argv)
  ELSE COMMON_REQUIRED_VARS
HasPlaceholder(v) == v.phe > v.phs

\* C25: in the env runner the verdict about a variable depends on that
\* variable's value only: the record of each required variable passes if
\* and only if the variable is set and its value holds no placeholder,
\* whatever the variables examined before it.
C25_VerdictPerVariable ==
  EnvReturned =>
    \A i \in 1..Len(RequiredHere) :
      /\ checks[i].name = "Env: " \o RequiredHere[i]
      /\ checks[i].passed <=>
           (IsSet(Getenv(env, RequiredHere[i])) /\ ~HasPlaceholder(Getenv(env, RequiredHere[i])))

\* a validator or runner has returned its suite
SuiteReturned == runner # "none" /\ stage \in {"end", "db.loop"}
DistinctNames(cs) == \A i, j \in 1..Len(cs) : cs[i].name = cs[j].name => i = j

\* C26: in every suite a runner returns each record name appears at most
\* once, so that no probe is reported both as passed and as failed.
C26_RecordNamesUnique ==
  SuiteReturned => DistinctNames(checks) /\ DistinctNames(allChecks)

\* the type argument of `validate-infra database <type>`, and the type the
\* standalone entry point of database.ts runs for it
TypeArgs == {"postgresql", "mysql", "mongodb", "pg", "postgres", "mongo"}
TypeArgIdx == {i \in 2..Len(argv) : argv[i] \in TypeArgs}
TypeArg == argv[CHOOSE i \in TypeArgIdx : \A j \in TypeArgIdx : i <= j]
StandaloneType(arg) ==
  CASE arg \in {"pg", "postgres"} -> "postgresql"
    [] arg = "mongo" -> "mongodb"
    [] OTHER -> arg
DatabaseDone ==
  /\ pc = "single" /\ runner = "database" /\ stage = "end" /\ TypeArgIdx # {}

\* C27: for every type argument the dispatcher accepts, the database
\* subcommand runs the validator the standalone entry point runs for that
\* argument: when a database of that type is configured, its URL is the
\* one validated and the run is not reported as skipped.
C27_TypeArgumentSelectsRunner ==
  (DatabaseDone /\ IsSet(dbUrl(env, vpc, StandaloneType(TypeArg)))) =>
    /\ target = dbUrl(env, vpc, StandaloneType(TypeArg))
    /\ ~(ret = [kind |-> "return", code |-> 0] /\ allChecks = <<>>)

\* the call that connects a driver client, with the call that closes it
ConnectClose ==
  {<<"pg.connect", "pg.end">>, <<"mysql.connect", "mysql.end">>,
   <<"mongo.connect", "mongo.close">>, <<"redis.connect", "redis.quit">>,
   <<"kafka.admin.connect", "kafka.admin.disconnect">>,
   <<"kafka.producer.connect", "kafka.producer.disconnect">>,
   <<"kafka.consumer.connect", "kafka.consumer.disconnect">>,
   <<"os.health", "os.close">>}

\* C28: on every path on which a driver client connected, the call that
\* closes that client has been made by the time the runner returns, also
\* when a later probe failed or the runner returned early.
C28_ConnectedClientClosed ==
  (runner # "none" /\ stage \in {"end", "db.loop"} /\ ret.kind # "throw") =>
    \A cc \in ConnectClose :
      \A i \in 1..Len(ops) :
        ops[i] = Op(cc[1], "ok") => \E j \in (i + 1)..Len(ops) : ops[j].op = cc[2]

\* C29: a write probe and its cleanup touch only the resource the
\* invocation created: a table or key that was in the service under the
\* probe's resource name before the run is never replaced nor removed.
C29_ExistingResourceKept ==
  [][\A n \in DOMAIN cstore : cstore[n] = Existing => cstore'[n] = Existing]_vars

\* the types in the order of the claim, their schemes, and the types one
\* run of the database runner goes through
TypeOrder == <<"postgresql", "mysql", "mongodb">>
TypeSchemes(t) ==
  CASE t = "postgresql" -> {"postgresql", "postgres"}
    [] t = "mysql" -> {"mysql"}
    [] t = "mongodb" -> {"mongodb", "mongodb+srv"}
    [] OTHER -> {}
KnownSchemes == UNION {TypeSchemes(TypeOrder[i]) : i \in 1..Len(TypeOrder)}
TypesRun == IF Subcommand = "database" /\ TypeArgIdx # {} THEN <<TypeArg>> ELSE TypeOrder
\* the k-th variable of type t, resolved, and whether the runner may take it
ResolvedAt(t, k) == getConnectionUrl(env, vpc, dbConfigs(t)[k][1], dbConfigs(t)[k][2])
Eligible(t, k) ==
  /\ IsSet(ResolvedAt(t, k))
  /\ \/ ResolvedAt(t, k).kind = "url" /\ ResolvedAt(t, k).scheme \in TypeSchemes(t)
     \/ ~(ResolvedAt(t, k).kind = "url" /\ ResolvedAt(t, k).scheme \in KnownSchemes)
EligibleIdx(t) == {k \in 1..Len(dbConfigs(t)) : Eligible(t, k)}
\* the URL the claim selects for type t (Unset: none)
Selected(t) ==
  IF EligibleIdx(t) = {} THEN Unset
  ELSE ResolvedAt(t, CHOOSE k \in EligibleIdx(t) : \A j \in EligibleIdx(t) : k <= j)
FirstStages(t) ==
  CASE t = "postgresql" -> {"pg.tcp"}
    [] t = "mysql" -> {"mysql.tcp"}
    [] t = "mongodb" -> {"mongo.tcp", "mongo.import"}
    [] OTHER -> {}

InDbLoop == runner = "database" /\ stage = "db.loop"
\* the types still to visit are the tail of the types of the run
DbOrderKept == InDbLoop => \E k \in 0..Len(TypesRun) : dbTodo = SubSeq(TypesRun, k + 1, Len(TypesRun))
\* one round of the loop: the type is passed when nothing is selected for
\* it, otherwise its validator is called once, with the selected URL
DbRound ==
  (InDbLoop /\ dbTodo # <<>>) =>
    /\ dbTodo' = Tail(dbTodo)
    /\ IF ~IsSet(Selected(Head(dbTodo)))
       THEN stage' = "db.loop" /\ allChecks' = allChecks
       ELSE /\ target' = Selected(Head(dbTodo))
            /\ stage' \in FirstStages(Head(dbTodo)) \cup {"end"}
            /\ stage' = "end" => ret' = [kind |-> "throw", code |-> 0]
\* a validator returns: it adds at least one record
DbValidatorReturns ==
  (runner = "database" /\ stage \notin {"db.loop", "call"} /\ stage' = "db.loop") =>
    Len(allChecks') > Len(allChecks)
\* the runner returns: a skip exactly when no URL was selected for any type
DbSkipIffNoneSelected ==
  (runner = "database" /\ stage = "end" /\ ret.kind = "return") =>
    /\ (allChecks = <<>>) <=> (\A i \in 1..Len(TypesRun) : ~IsSet(Selected(TypesRun[i])))
    /\ allChecks = <<>> => ret.code = 0

====
